---- MODULE Spec2Model ----
(***************************************************************************)
(* GeoChrono: the CSV ingestion pipeline of the geo-chrono command line    *)
(* tool (csv.Reader, gps.Points and the stages of main) as a state         *)
(* machine.                                                                *)
(*                                                                         *)
(* Representation.  A Go string is a sequence of one-character strings,    *)
(* so that trimming, lower-casing and parsing are computed character by    *)
(* character.  A float64 coordinate is an integer count of 10^-FloatDigits *)
(* degrees (decimal notation only, at most FloatDigits fraction digits).   *)
(* A time.Time is the instant [day, sec, nsec]: days counted from          *)
(* 1970-01-01 UTC, the second of that day, and the nanosecond.             *)
(* Slice indices are zero-based as in the source; element i of a Go slice  *)
(* is element i+1 of the sequence.                                         *)
(***************************************************************************)
EXTENDS Integers, Sequences, FiniteSets, TLC

(***************************************************************************)
(* Bounds of the model.                                                    *)
(***************************************************************************)
\* longest input file, in lines
MaxLines == 3
\* largest configured skip_rows
MaxSkipRows == 1

(***************************************************************************)
(* Characters and strings.                                                 *)
(***************************************************************************)
DigitChars == <<"0", "1", "2", "3", "4", "5", "6", "7", "8", "9">>

UpperChars ==
    <<"A", "B", "C", "D", "E", "F", "G", "H", "I", "J", "K", "L", "M", "N",
      "O", "P", "Q", "R", "S", "T", "U", "V", "W", "X", "Y", "Z">>

LowerChars ==
    <<"a", "b", "c", "d", "e", "f", "g", "h", "i", "j", "k", "l", "m", "n",
      "o", "p", "q", "r", "s", "t", "u", "v", "w", "x", "y", "z">>

\* unicode.IsSpace restricted to ASCII, as used by strings.TrimSpace
SpaceChars == {" ", "\t", "\n", "\r"}

DigitSet == {DigitChars[i] : i \in 1..10}

IsDigit(c) == c \in DigitSet

DigitVal(c) == (CHOOSE i \in 1..10 : DigitChars[i] = c) - 1

AllDigits(s) == \A i \in 1..Len(s) : IsDigit(s[i])

\* the number written by a sequence of decimal digits
DigitsValue(ds) ==
    LET value[i \in 0..Len(ds)] ==
          IF i = 0 THEN 0 ELSE value[i - 1] * 10 + DigitVal(ds[i])
    IN  value[Len(ds)]

Pow10(n) ==
    LET pow[i \in 0..n] == IF i = 0 THEN 1 ELSE 10 * pow[i - 1]
    IN  pow[n]

\* strings.ToLower on one character
ToLowerChar(c) ==
    IF \E i \in 1..26 : UpperChars[i] = c
    THEN LowerChars[CHOOSE i \in 1..26 : UpperChars[i] = c]
    ELSE c

\* strings.ToLower
ToLower(s) == [i \in 1..Len(s) |-> ToLowerChar(s[i])]

\* the suffix of s from zero-based position n on: s[n:]
Drop(s, n) == SubSeq(s, n + 1, Len(s))

\* the length of the longest prefix of s made of characters of the set cs
PrefixRun(s, cs) == Cardinality({i \in 1..Len(s) : \A j \in 1..i : s[j] \in cs})

\* the length of the longest suffix of s made of characters of the set cs
SuffixRun(s, cs) == Cardinality({i \in 1..Len(s) : \A j \in i..Len(s) : s[j] \in cs})

TrimLeft(s) == Drop(s, PrefixRun(s, SpaceChars))

TrimRight(s) == SubSeq(s, 1, Len(s) - SuffixRun(s, SpaceChars))

\* strings.TrimSpace
TrimSpace(s) == TrimRight(TrimLeft(s))

(***************************************************************************)
(* strconv.ParseFloat(s, 64) and strconv.ParseInt(s, 10, 64), on decimal   *)
(* notation: an optional sign, digits, and for a float an optional point   *)
(* and fraction.  Exponents, hexadecimal floats, "inf" and "nan" are not   *)
(* part of the inputs of this model.                                       *)
(***************************************************************************)
\* decimal places of the coordinate key "%.6f" of RemoveDuplicates
KeyDecimals == 6

\* one decimal place more than the key, so that the key rounds
FloatDigits == KeyDecimals + 1

HasSign(s) == s # <<>> /\ s[1] \in {"+", "-"}

ParseFloat(s) ==
    LET body == IF HasSign(s) THEN Tail(s) ELSE s
        dots == {i \in 1..Len(body) : body[i] = "."}
        dot  == IF dots = {} THEN Len(body) + 1 ELSE CHOOSE i \in dots : TRUE
        ip   == SubSeq(body, 1, dot - 1)
        fp   == SubSeq(body, dot + 1, Len(body))
        ok   == /\ Cardinality(dots) <= 1
                /\ AllDigits(ip) /\ AllDigits(fp)
                /\ Len(ip) + Len(fp) >= 1
                /\ Len(fp) <= FloatDigits
        mag  == DigitsValue(ip) * Pow10(FloatDigits)
                  + DigitsValue(fp) * Pow10(FloatDigits - Len(fp))
    IN  IF ok
        THEN [ok |-> TRUE, val |-> IF s[1] = "-" THEN 0 - mag ELSE mag]
        ELSE [ok |-> FALSE, val |-> 0]

ParseInt(s) ==
    LET body == IF HasSign(s) THEN Tail(s) ELSE s
    IN  IF body # <<>> /\ AllDigits(body)
        THEN [ok |-> TRUE,
              val |-> IF s[1] = "-" THEN 0 - DigitsValue(body) ELSE DigitsValue(body)]
        ELSE [ok |-> FALSE, val |-> 0]

(***************************************************************************)
(* time.Parse.  A layout is the sequence of chunks the time package cuts   *)
(* it into: the reference elements "2006", "01", "02", "15", "04", "05",   *)
(* ".000" and "-07:00", and every other character as a literal.            *)
(***************************************************************************)
DaysIn(month, year) ==
    IF month = 2
    THEN IF year % 4 = 0 /\ (year % 100 # 0 \/ year % 400 = 0) THEN 29 ELSE 28
    ELSE IF month \in {4, 6, 9, 11} THEN 30 ELSE 31

\* days from 1970-01-01 to the given civil date (proleptic Gregorian)
DaysFromCivil(year, month, day) ==
    LET y   == IF month <= 2 THEN year - 1 ELSE year
        era == y \div 400
        yoe == y - era * 400
        mp  == IF month > 2 THEN month - 3 ELSE month + 9
        doy == (153 * mp + 2) \div 5 + day - 1
        doe == yoe * 365 + yoe \div 4 - yoe \div 100 + doy
    IN  era * 146097 + doe - 719468

\* the fields time.Parse collects; offset is the zone offset in seconds
ZeroFields ==
    [year |-> 0, month |-> 1, day |-> 1, hour |-> 0, min |-> 0, sec |-> 0,
     nsec |-> 0, offset |-> 0]

ParseFail == [ok |-> FALSE, rest |-> <<>>, f |-> ZeroFields]

\* getnum(s, fixed): one or two leading digits, exactly two when fixed
GetNum(v, fixed) ==
    IF v = <<>> \/ ~IsDigit(v[1]) THEN [ok |-> FALSE, n |-> 0, rest |-> v]
    ELSE IF Len(v) < 2 \/ ~IsDigit(v[2])
         THEN IF fixed THEN [ok |-> FALSE, n |-> 0, rest |-> v]
              ELSE [ok |-> TRUE, n |-> DigitVal(v[1]), rest |-> Drop(v, 1)]
         ELSE [ok |-> TRUE, n |-> DigitVal(v[1]) * 10 + DigitVal(v[2]), rest |-> Drop(v, 2)]

\* number of leading digits of v
DigitRun(v) == PrefixRun(v, DigitSet)

\* parseNanoseconds on n fraction digits ds
Nanoseconds(ds) ==
    LET d9 == IF Len(ds) > 9 THEN SubSeq(ds, 1, 9) ELSE ds
    IN  DigitsValue(d9) * Pow10(9 - Len(d9))

\* one chunk c of the layout against the value v; next is the chunk after c
\* ("" at the end of the layout)
ParseChunk(c, next, v, f) ==
    CASE c = "2006" ->
           IF Len(v) >= 4 /\ AllDigits(SubSeq(v, 1, 4))
           THEN [ok |-> TRUE, rest |-> Drop(v, 4),
                 f |-> [f EXCEPT !.year = DigitsValue(SubSeq(v, 1, 4))]]
           ELSE ParseFail
      [] c = "01" ->
           LET g == GetNum(v, TRUE)
           IN  IF g.ok /\ g.n >= 1 /\ g.n <= 12
               THEN [ok |-> TRUE, rest |-> g.rest, f |-> [f EXCEPT !.month = g.n]]
               ELSE ParseFail
      [] c = "02" ->
           LET g == GetNum(v, TRUE)
           IN  IF g.ok
               THEN [ok |-> TRUE, rest |-> g.rest, f |-> [f EXCEPT !.day = g.n]]
               ELSE ParseFail
      [] c = "15" ->
           LET g == GetNum(v, FALSE)
           IN  IF g.ok /\ g.n < 24
               THEN [ok |-> TRUE, rest |-> g.rest, f |-> [f EXCEPT !.hour = g.n]]
               ELSE ParseFail
      [] c = "04" ->
           LET g == GetNum(v, TRUE)
           IN  IF g.ok /\ g.n < 60
               THEN [ok |-> TRUE, rest |-> g.rest, f |-> [f EXCEPT !.min = g.n]]
               ELSE ParseFail
      [] c = "05" ->
           LET g == GetNum(v, TRUE)
               r == g.rest
               \* a fraction in the value that the layout does not ask for
               frac == /\ Len(r) >= 2 /\ r[1] \in {".", ","} /\ IsDigit(r[2])
                       /\ next # ".000"
               n == DigitRun(Tail(r))
           IN  IF g.ok /\ g.n < 60
               THEN IF frac
                    THEN [ok |-> TRUE, rest |-> Drop(r, n + 1),
                          f |-> [f EXCEPT !.sec = g.n,
                                          !.nsec = Nanoseconds(SubSeq(r, 2, n + 1))]]
                    ELSE [ok |-> TRUE, rest |-> r, f |-> [f EXCEPT !.sec = g.n]]
               ELSE ParseFail
      [] c = ".000" ->
           IF Len(v) >= 4 /\ v[1] \in {".", ","} /\ AllDigits(SubSeq(v, 2, 4))
           THEN [ok |-> TRUE, rest |-> Drop(v, 4),
                 f |-> [f EXCEPT !.nsec = Nanoseconds(SubSeq(v, 2, 4))]]
           ELSE ParseFail
      [] c = "-07:00" ->
           IF /\ Len(v) >= 6 /\ v[4] = ":" /\ v[1] \in {"+", "-"}
              /\ AllDigits(SubSeq(v, 2, 3)) /\ AllDigits(SubSeq(v, 5, 6))
              /\ DigitsValue(SubSeq(v, 2, 3)) <= 24
              /\ DigitsValue(SubSeq(v, 5, 6)) <= 60
           THEN LET secs == (DigitsValue(SubSeq(v, 2, 3)) * 60
                               + DigitsValue(SubSeq(v, 5, 6))) * 60
                IN  [ok |-> TRUE, rest |-> Drop(v, 6),
                     f |-> [f EXCEPT !.offset = IF v[1] = "-" THEN 0 - secs ELSE secs]]
           ELSE ParseFail
      [] c = " " ->
           \* a space of the layout matches a run of spaces of the value
           IF v # <<>> /\ v[1] = " "
           THEN [ok |-> TRUE, rest |-> Drop(v, PrefixRun(v, {" "})), f |-> f]
           ELSE ParseFail
      [] OTHER ->
           IF v # <<>> /\ v[1] = c
           THEN [ok |-> TRUE, rest |-> Tail(v), f |-> f]
           ELSE ParseFail

\* the next chunk c after the chunks that gave prev
ChunkStep(prev, c, next) ==
    IF prev.ok THEN ParseChunk(c, next, prev.rest, prev.f) ELSE ParseFail

\* "extra text" if some of the value is left after the last chunk
NoExtraText(last) == IF last.ok /\ last.rest = <<>> THEN last ELSE ParseFail

\* the chunks of the layout in turn
ParseChunks(layout, value) ==
    LET after[k \in 0..Len(layout)] ==
          IF k = 0 THEN [ok |-> TRUE, rest |-> value, f |-> ZeroFields]
          ELSE ChunkStep(after[k - 1], layout[k],
                         IF k < Len(layout) THEN layout[k + 1] ELSE "")
    IN  NoExtraText(after[Len(layout)])

\* the instant secs seconds and nsec nanoseconds after midnight UTC of the
\* day days
Instant(days, secs, nsec) ==
    [day |-> days + (secs \div 86400), sec |-> secs % 86400, nsec |-> nsec]

\* time.Date(year, month, day, hour, min, sec, nsec, zone) for the fields f
InstantOf(f) ==
    Instant(DaysFromCivil(f.year, f.month, f.day),
            f.hour * 3600 + f.min * 60 + f.sec - f.offset, f.nsec)

\* time.Time{}: January 1, year 1, 00:00:00 UTC
ZeroInstant == Instant(DaysFromCivil(1, 1, 1), 0, 0)

NoTime == [ok |-> FALSE, t |-> ZeroInstant]

\* the end of time.Parse: "day out of range", else the instant
DateOf(r) ==
    IF r.ok /\ r.f.day >= 1 /\ r.f.day <= DaysIn(r.f.month, r.f.year)
    THEN [ok |-> TRUE, t |-> InstantOf(r.f)]
    ELSE NoTime

\* time.Parse(layout, value)
TimeParse(layout, value) == DateOf(ParseChunks(layout, value))

\* time.Unix(sec, 0)
TimeUnix(sec) == Instant(0, sec, 0)

\* t.Before(u)
Before(t, u) ==
    \/ t.day < u.day
    \/ t.day = u.day /\ t.sec < u.sec
    \/ t.day = u.day /\ t.sec = u.sec /\ t.nsec < u.nsec

\* t.After(u)
After(t, u) == Before(u, t)

(***************************************************************************)
(* csv.parseTimestamp and parseDefaultTimestamp.                           *)
(***************************************************************************)
LayoutISOZ == <<"2006", "-", "01", "-", "02", "T", "15", ":", "04", ":", "05", "Z">>

LayoutISOOffset ==
    <<"2006", "-", "01", "-", "02", "T", "15", ":", "04", ":", "05", "-07:00">>

LayoutDateTime == <<"2006", "-", "01", "-", "02", " ", "15", ":", "04", ":", "05">>

LayoutUS == <<"01", "/", "02", "/", "2006", " ", "15", ":", "04", ":", "05">>

LayoutEuropean == <<"02", "/", "01", "/", "2006", " ", "15", ":", "04", ":", "05">>

LayoutISOMillis ==
    <<"2006", "-", "01", "-", "02", "T", "15", ":", "04", ":", "05", ".000", "Z">>

LayoutDate == <<"2006", "-", "01", "-", "02">>

\* a variant of DefaultFormats with the day/month layout before the
\* month/day layout
DefaultFormatsEuropeanFirst ==
    <<LayoutISOZ, LayoutISOOffset, LayoutDateTime, LayoutEuropean, LayoutUS,
      LayoutISOMillis, LayoutDate>>

\* the formats of parseDefaultTimestamp, in its order
DefaultFormats ==
    <<LayoutISOZ, LayoutISOOffset, LayoutDateTime, LayoutUS, LayoutEuropean,
      LayoutISOMillis, LayoutDate>>

\* the result r of an attempt if it succeeded, else other
orElse(r, other) == IF r.ok THEN r ELSE other

\* the loop "for _, format := range formats { if t, err := time.Parse(format,
\* s); err == nil { return t, nil } }"; from[k] is its result from the k-th
\* format on
FirstParse(formats, s) ==
    LET from[k \in 1..(Len(formats) + 1)] ==
          IF k > Len(formats) THEN NoTime
          ELSE orElse(TimeParse(formats[k], s), from[k + 1])
    IN  from[1]

\* the last resort of parseDefaultTimestamp: u is strconv.ParseInt(s, 10, 64)
unixTimestamp(u) == IF u.ok THEN [ok |-> TRUE, t |-> TimeUnix(u.val)] ELSE NoTime

parseDefaultTimestamp(s) ==
    orElse(FirstParse(DefaultFormats, s), unixTimestamp(ParseInt(s)))

\* a variant of parseTimestamp that reads the cell as epoch seconds before it
\* tries any format
parseTimestampEpochFirst(formats, s) ==
    orElse(unixTimestamp(ParseInt(TrimSpace(s))),
           orElse(FirstParse(formats, TrimSpace(s)),
                  FirstParse(DefaultFormats, TrimSpace(s))))

\* formats: r.processing.TimestampFormats
parseTimestamp(formats, s) ==
    orElse(FirstParse(formats, TrimSpace(s)), parseDefaultTimestamp(TrimSpace(s)))

(***************************************************************************)
(* gps.Point and gps.Points.                                               *)
(***************************************************************************)
\* gps.Point
Point(ts, lat, lng, title, desc) ==
    [Timestamp |-> ts, Latitude |-> lat, Longitude |-> lng,
     Title |-> title, Description |-> desc]

\* fmt.Sprintf("%.6f", v): the sign and the magnitude rounded to KeyDecimals
Sprintf6(v) ==
    LET mag  == IF v < 0 THEN 0 - v ELSE v
        unit == Pow10(FloatDigits - KeyDecimals)
    IN  <<v < 0, (mag + unit \div 2) \div unit>>

\* the key of RemoveDuplicates: fmt.Sprintf("%.6f,%.6f", lat, lng)
CoordKey(point) == <<Sprintf6(point.Latitude), Sprintf6(point.Longitude)>>

\* a variant of RemoveDuplicates that keeps the last point of each key
RemoveDuplicatesKeepLast(p) ==
    LET keep == {k \in 1..Len(p) :
                   \A j \in (k + 1)..Len(p) : CoordKey(p[j]) # CoordKey(p[k])}
        upTo[n \in 0..Len(p)] ==
          IF n = 0 THEN <<>>
          ELSE IF n \in keep THEN Append(upTo[n - 1], p[n]) ELSE upTo[n - 1]
    IN  upTo[Len(p)]

\* a variant of RemoveDuplicates that drops one point only, the last that has
\* the key of an earlier one
RemoveDuplicatesOnce(p) ==
    LET later == {k \in 1..Len(p) :
                    \E j \in 1..(k - 1) : CoordKey(p[j]) = CoordKey(p[k])}
        last  == CHOOSE k \in later : \A j \in later : j <= k
    IN  IF later = {} THEN p
        ELSE [n \in 1..(Len(p) - 1) |-> IF n < last THEN p[n] ELSE p[n + 1]]

\* a variant of RemoveDuplicates that gives the points it keeps the latitude
\* of their key: the latitude rounded to KeyDecimals places
RemoveDuplicatesRounded(p) ==
    LET after[i \in 0..Len(p)] ==
          IF i = 0 THEN [seen |-> {}, result |-> <<>>]
          ELSE IF CoordKey(p[i]) \notin after[i - 1].seen
          THEN [seen |-> after[i - 1].seen \cup {CoordKey(p[i])},
                result |-> Append(after[i - 1].result,
                                  [p[i] EXCEPT !.Latitude =
                                     (IF @ < 0 THEN -1 ELSE 1) * Sprintf6(@)[2]
                                       * Pow10(FloatDigits - KeyDecimals)])]
          ELSE after[i - 1]
    IN  after[Len(p)].result

\* seen and result after the first i iterations of the loop over p
RemoveDuplicates(p) ==
    LET after[i \in 0..Len(p)] ==
          IF i = 0 THEN [seen |-> {}, result |-> <<>>]
          ELSE LET prev == after[i - 1]
                   key  == CoordKey(p[i])
               IN  IF key \notin prev.seen
                   THEN [seen |-> prev.seen \cup {key},
                         result |-> Append(prev.result, p[i])]
                   ELSE prev
    IN  after[Len(p)].result

\* the body of the loop of Bounds: b is the box so far
boundsStep(b, point) ==
    [minLat |-> IF point.Latitude < b.minLat THEN point.Latitude ELSE b.minLat,
     maxLat |-> IF point.Latitude > b.maxLat THEN point.Latitude ELSE b.maxLat,
     minLng |-> IF point.Longitude < b.minLng THEN point.Longitude ELSE b.minLng,
     maxLng |-> IF point.Longitude > b.maxLng THEN point.Longitude ELSE b.maxLng]

\* the box "initialized with first point"
boundsOf(point) ==
    [minLat |-> point.Latitude, maxLat |-> point.Latitude,
     minLng |-> point.Longitude, maxLng |-> point.Longitude]

\* a variant of Bounds that returns the box of the first point
BoundsOfFirst(p) ==
    IF Len(p) = 0 THEN [minLat |-> 0, maxLat |-> 0, minLng |-> 0, maxLng |-> 0]
    ELSE boundsOf(p[1])

\* p.Bounds(); box[n] is the box after the first n points
Bounds(p) ==
    IF Len(p) = 0 THEN [minLat |-> 0, maxLat |-> 0, minLng |-> 0, maxLng |-> 0]
    ELSE LET box[n \in 1..Len(p)] ==
               IF n = 1 THEN boundsOf(p[1]) ELSE boundsStep(box[n - 1], p[n])
         IN  box[Len(p)]

\* the float64 quotient num / den, kept as the exact fraction
Quotient(num, den) == [num |-> num, den |-> den]

\* the body of the loop of Center: t is totalLat and totalLng so far
centerStep(t, point) ==
    [lat |-> t.lat + point.Latitude, lng |-> t.lng + point.Longitude]

\* the return statement of Center, given the totals and len(p)
centerOf(t, n) == [lat |-> Quotient(t.lat, n), lng |-> Quotient(t.lng, n)]

\* the totals of Center after its loop over p
centerTotals(p) ==
    LET total[n \in 0..Len(p)] ==
          IF n = 0 THEN [lat |-> 0, lng |-> 0]
          ELSE centerStep(total[n - 1], p[n])
    IN  total[Len(p)]

\* a variant of Center that returns the totals undivided
CenterUndivided(p) ==
    IF Len(p) = 0 THEN [lat |-> Quotient(0, 1), lng |-> Quotient(0, 1)]
    ELSE centerOf(centerTotals(p), 1)

\* p.Center()
Center(p) ==
    IF Len(p) = 0 THEN [lat |-> Quotient(0, 1), lng |-> Quotient(0, 1)]
    ELSE centerOf(centerTotals(p), Len(p))

\* the body of the loop of TimeRange: r is start and end so far
timeRangeStep(r, point) ==
    [start |-> IF Before(point.Timestamp, r.start) THEN point.Timestamp ELSE r.start,
     end   |-> IF After(point.Timestamp, r.end) THEN point.Timestamp ELSE r.end]

\* a variant of TimeRange that takes the collection to be in time order
TimeRangeOfEnds(p) ==
    IF Len(p) = 0 THEN [start |-> ZeroInstant, end |-> ZeroInstant]
    ELSE [start |-> p[1].Timestamp, end |-> p[Len(p)].Timestamp]

\* p.TimeRange(); range[n] is start and end after the first n points
TimeRange(p) ==
    IF Len(p) = 0 THEN [start |-> ZeroInstant, end |-> ZeroInstant]
    ELSE LET range[n \in 1..Len(p)] ==
               IF n = 1
               THEN [start |-> p[1].Timestamp, end |-> p[1].Timestamp]
               ELSE timeRangeStep(range[n - 1], p[n])
         IN  range[Len(p)]

IsEmpty(p) == Len(p) = 0

\* a *Point: nil, or the address of the element at zero-based position at of
\* the collection it was taken from
Pointer(isNil, at) == [nil |-> isNil, at |-> at]

First(p) == IF Len(p) = 0 THEN Pointer(TRUE, 0) ELSE Pointer(FALSE, 0)

\* a variant of Last that returns the address of the first element
LastAsFirst(p) == IF Len(p) = 0 THEN Pointer(TRUE, 0) ELSE Pointer(FALSE, 0)

Last(p) == IF Len(p) = 0 THEN Pointer(TRUE, 0) ELSE Pointer(FALSE, Len(p) - 1)

\* a variant of less that orders later instants first
lessDescending(p, i, j) == Before(p[j].Timestamp, p[i].Timestamp)

\* the less function SortByTimestamp hands to sort.Slice
less(p, i, j) == Before(p[i].Timestamp, p[j].Timestamp)

\* all the orders in which the positions 1..n can be listed
Orderings(n) == {o \in [1..n -> 1..n] : \A i, j \in 1..n : o[i] = o[j] => i = j}

\* p rearranged by the ordering o of its positions
Rearranged(p, o) == [k \in 1..Len(p) |-> p[o[k]]]

\* sort.Slice(p, less): the slice is rearranged so that no element is less
\* than one before it; "the sort is not guaranteed to be stable", so every
\* such rearrangement is a possible outcome
SortSliceOutcomes(p) ==
    {q \in {Rearranged(p, o) : o \in Orderings(Len(p))} :
        \A i, j \in 1..Len(q) : i < j => ~less(q, j, i)}

\* the possible contents of p after p.SortByTimestamp()
SortByTimestamp(p) == SortSliceOutcomes(p)

(***************************************************************************)
(* csv.Reader.                                                             *)
(***************************************************************************)
NoIndices ==
    [timestamp |-> -1, latitude |-> -1, longitude |-> -1, title |-> -1,
     description |-> -1]

\* "timestamp", "time", "datetime"
TimestampDefaults ==
    <<<<"t", "i", "m", "e", "s", "t", "a", "m", "p">>,
      <<"t", "i", "m", "e">>,
      <<"d", "a", "t", "e", "t", "i", "m", "e">>>>

\* "latitude", "lat"
LatitudeDefaults ==
    <<<<"l", "a", "t", "i", "t", "u", "d", "e">>,
      <<"l", "a", "t">>>>

\* "longitude", "lon", "lng"
LongitudeDefaults ==
    <<<<"l", "o", "n", "g", "i", "t", "u", "d", "e">>,
      <<"l", "o", "n">>,
      <<"l", "n", "g">>>>

\* a variant of matchesColumn that accepts the default names as well when a
\* name is configured
matchesColumnOrDefaults(colName, configName, defaults) ==
    \/ configName # <<>> /\ colName = ToLower(configName)
    \/ \E k \in 1..Len(defaults) : colName = defaults[k]

matchesColumn(colName, configName, defaults) ==
    IF configName # <<>>
    THEN colName = ToLower(configName)
    ELSE \E k \in 1..Len(defaults) : colName = defaults[k]

\* a variant of headerStep that takes a cell named "title" or "description"
\* for the title or the description when no name is configured for it
headerStepOptionalDefaults(c, col, i, indices) ==
    LET colLower == ToLower(col)
        i1 == IF matchesColumn(colLower, c.TimestampColumn, TimestampDefaults)
              THEN [indices EXCEPT !.timestamp = i] ELSE indices
        i2 == IF matchesColumn(colLower, c.LatitudeColumn, LatitudeDefaults)
              THEN [i1 EXCEPT !.latitude = i] ELSE i1
        i3 == IF matchesColumn(colLower, c.LongitudeColumn, LongitudeDefaults)
              THEN [i2 EXCEPT !.longitude = i] ELSE i2
        i4 == IF matchesColumn(colLower, c.TitleColumn, <<<<"t", "i", "t", "l", "e">>>>)
              THEN [i3 EXCEPT !.title = i] ELSE i3
        i5 == IF matchesColumn(colLower, c.DescriptionColumn,
                               <<<<"d", "e", "s", "c", "r", "i", "p", "t", "i", "o", "n">>>>)
              THEN [i4 EXCEPT !.description = i] ELSE i4
    IN  i5

\* a variant of headerStep that leaves a field alone once a cell has been
\* taken for it
headerStepKeepFirst(c, col, i, indices) ==
    LET colLower == ToLower(col)
        i1 == IF /\ indices.timestamp = -1
                 /\ matchesColumn(colLower, c.TimestampColumn, TimestampDefaults)
              THEN [indices EXCEPT !.timestamp = i] ELSE indices
        i2 == IF /\ indices.latitude = -1
                 /\ matchesColumn(colLower, c.LatitudeColumn, LatitudeDefaults)
              THEN [i1 EXCEPT !.latitude = i] ELSE i1
        i3 == IF /\ indices.longitude = -1
                 /\ matchesColumn(colLower, c.LongitudeColumn, LongitudeDefaults)
              THEN [i2 EXCEPT !.longitude = i] ELSE i2
        i4 == IF /\ indices.title = -1
                 /\ c.TitleColumn # <<>> /\ colLower = ToLower(c.TitleColumn)
              THEN [i3 EXCEPT !.title = i] ELSE i3
        i5 == IF /\ indices.description = -1
                 /\ c.DescriptionColumn # <<>> /\ colLower = ToLower(c.DescriptionColumn)
              THEN [i4 EXCEPT !.description = i] ELSE i4
    IN  i5

\* the body of the loop over the header, for the cell at zero-based position i
headerStep(c, col, i, indices) ==
    LET colLower == ToLower(col)
        i1 == IF matchesColumn(colLower, c.TimestampColumn, TimestampDefaults)
              THEN [indices EXCEPT !.timestamp = i] ELSE indices
        i2 == IF matchesColumn(colLower, c.LatitudeColumn, LatitudeDefaults)
              THEN [i1 EXCEPT !.latitude = i] ELSE i1
        i3 == IF matchesColumn(colLower, c.LongitudeColumn, LongitudeDefaults)
              THEN [i2 EXCEPT !.longitude = i] ELSE i2
        i4 == IF c.TitleColumn # <<>> /\ colLower = ToLower(c.TitleColumn)
              THEN [i3 EXCEPT !.title = i] ELSE i3
        i5 == IF c.DescriptionColumn # <<>> /\ colLower = ToLower(c.DescriptionColumn)
              THEN [i4 EXCEPT !.description = i] ELSE i4
    IN  i5

\* the indices after the loop "for i, col := range header"
headerLoop(c, header) ==
    LET after[n \in 0..Len(header)] ==
          IF n = 0 THEN NoIndices
          ELSE headerStep(c, header[n], n - 1, after[n - 1])
    IN  after[Len(header)]

\* a variant of findColumnIndices that takes the default positions whatever
\* the header holds
findColumnIndicesByPosition(c, records) ==
    [err |-> "",
     indices |-> [timestamp |-> 0, latitude |-> 1, longitude |-> 2,
                  title |-> -1, description |-> -1]]

\* a variant of findColumnIndices that reads the first record as a header
\* whether or not the file is said to have one
findColumnIndicesByHeader(c, records) ==
    LET indices ==
          IF Len(records) > 0
          THEN headerLoop(c, records[1])
          ELSE [timestamp |-> 0, latitude |-> 1, longitude |-> 2,
                title |-> -1, description |-> -1]
    IN  IF indices.timestamp = -1 \/ indices.latitude = -1 \/ indices.longitude = -1
        THEN [err |-> "CSV must contain timestamp, latitude, and longitude columns",
              indices |-> NoIndices]
        ELSE [err |-> "", indices |-> indices]

\* c: r.config
findColumnIndices(c, records) ==
    LET indices ==
          IF c.HasHeader /\ Len(records) > 0
          THEN headerLoop(c, records[1])
          ELSE [timestamp |-> 0, latitude |-> 1, longitude |-> 2,
                title |-> IF Len(records) > 0 /\ Len(records[1]) > 3 THEN 3 ELSE -1,
                description |-> IF Len(records) > 0 /\ Len(records[1]) > 4 THEN 4 ELSE -1]
    IN  IF indices.timestamp = -1 \/ indices.latitude = -1 \/ indices.longitude = -1
        THEN [err |-> "CSV must contain timestamp, latitude, and longitude columns",
              indices |-> NoIndices]
        ELSE [err |-> "", indices |-> indices]

NoPoint == Point(ZeroInstant, 0, 0, <<>>, <<>>)

\* a variant of recordPoint that rejects a latitude beyond 90 degrees and a
\* longitude beyond 180 degrees
recordPointInRange(timestamp, lat, lng, title, desc) ==
    IF ~timestamp.ok THEN [err |-> "invalid timestamp", point |-> NoPoint]
    ELSE IF ~lat.ok \/ lat.val < 0 - 90 * Pow10(FloatDigits) \/ lat.val > 90 * Pow10(FloatDigits)
    THEN [err |-> "invalid latitude", point |-> NoPoint]
    ELSE IF ~lng.ok \/ lng.val < 0 - 180 * Pow10(FloatDigits) \/ lng.val > 180 * Pow10(FloatDigits)
    THEN [err |-> "invalid longitude", point |-> NoPoint]
    ELSE [err |-> "", point |-> Point(timestamp.t, lat.val, lng.val, title, desc)]

\* a variant of recordPoint that checks the latitude before the timestamp
recordPointLatitudeFirst(timestamp, lat, lng, title, desc) ==
    IF ~lat.ok THEN [err |-> "invalid latitude", point |-> NoPoint]
    ELSE IF ~timestamp.ok THEN [err |-> "invalid timestamp", point |-> NoPoint]
    ELSE IF ~lng.ok THEN [err |-> "invalid longitude", point |-> NoPoint]
    ELSE [err |-> "", point |-> Point(timestamp.t, lat.val, lng.val, title, desc)]

\* parseRecord once the record has enough columns, given the parsed cells
recordPoint(timestamp, lat, lng, title, desc) ==
    IF ~timestamp.ok THEN [err |-> "invalid timestamp", point |-> NoPoint]
    ELSE IF ~lat.ok THEN [err |-> "invalid latitude", point |-> NoPoint]
    ELSE IF ~lng.ok THEN [err |-> "invalid longitude", point |-> NoPoint]
    ELSE [err |-> "", point |-> Point(timestamp.t, lat.val, lng.val, title, desc)]

\* a variant of parseRecord that takes the title and the description as
\* they stand in their cells
parseRecordUntrimmed(r, record, indices) ==
    IF \/ Len(record) <= indices.timestamp
       \/ Len(record) <= indices.latitude
       \/ Len(record) <= indices.longitude
    THEN [err |-> "insufficient columns", point |-> NoPoint]
    ELSE recordPoint(
           parseTimestamp(r.processing.TimestampFormats, record[indices.timestamp + 1]),
           ParseFloat(TrimSpace(record[indices.latitude + 1])),
           ParseFloat(TrimSpace(record[indices.longitude + 1])),
           IF indices.title # -1 /\ indices.title < Len(record)
           THEN record[indices.title + 1] ELSE <<>>,
           IF indices.description # -1 /\ indices.description < Len(record)
           THEN record[indices.description + 1] ELSE <<>>)

\* r: the Reader; record[i] of the source is record[i + 1] here
parseRecord(r, record, indices) ==
    IF \/ Len(record) <= indices.timestamp
       \/ Len(record) <= indices.latitude
       \/ Len(record) <= indices.longitude
    THEN [err |-> "insufficient columns", point |-> NoPoint]
    ELSE recordPoint(
           parseTimestamp(r.processing.TimestampFormats, record[indices.timestamp + 1]),
           ParseFloat(TrimSpace(record[indices.latitude + 1])),
           ParseFloat(TrimSpace(record[indices.longitude + 1])),
           IF indices.title # -1 /\ indices.title < Len(record)
           THEN TrimSpace(record[indices.title + 1]) ELSE <<>>,
           IF indices.description # -1 /\ indices.description < Len(record)
           THEN TrimSpace(record[indices.description + 1]) ELSE <<>>)

\* records after "records = records[r.config.SkipRows:]"
skipRows(c, records) ==
    IF c.SkipRows > 0 /\ Len(records) > c.SkipRows
    THEN Drop(records, c.SkipRows)
    ELSE records

\* a variant of recordStep that appends the point of a failed row as well
recordStepAppendAlways(prev, res, rowNum) ==
    [prev EXCEPT !.points = Append(@, res.point)]

\* the body of the loop over the data rows: res is the result of parseRecord
\* for the row numbered rowNum; a warning is printed or the point appended
recordStep(prev, res, rowNum) ==
    IF res.err # ""
    THEN [prev EXCEPT !.warnings = Append(@, [row |-> rowNum, reason |-> res.err])]
    ELSE [prev EXCEPT !.points = Append(@, res.point)]

\* a variant of recordLoop that numbers the rows from the first data row
recordLoopNumberedFromData(r, records, startRow, indices) ==
    LET after[n \in 0..(Len(records) - startRow)] ==
          IF n = 0 THEN [points |-> <<>>, warnings |-> <<>>]
          ELSE recordStep(after[n - 1],
                          parseRecord(r, records[(n - 1) + startRow + 1], indices),
                          n)
    IN  after[Len(records) - startRow]

\* a variant of recordLoop that ends at the first row that fails
recordLoopUntilFailure(r, records, startRow, indices) ==
    LET after[n \in 0..(Len(records) - startRow)] ==
          IF n = 0 THEN [points |-> <<>>, warnings |-> <<>>]
          ELSE IF after[n - 1].warnings # <<>> THEN after[n - 1]
          ELSE recordStep(after[n - 1],
                          parseRecord(r, records[(n - 1) + startRow + 1], indices),
                          (n - 1) + startRow + 1)
    IN  after[Len(records) - startRow]

\* the loop "for i, record := range records[startRow:]"; after[n] is points
\* and the warnings printed after the iterations i = 0 .. n-1
recordLoop(r, records, startRow, indices) ==
    LET after[n \in 0..(Len(records) - startRow)] ==
          IF n = 0 THEN [points |-> <<>>, warnings |-> <<>>]
          ELSE recordStep(after[n - 1],
                          parseRecord(r, records[(n - 1) + startRow + 1], indices),
                          (n - 1) + startRow + 1)
    IN  after[Len(records) - startRow]

Failed(msg) == [points |-> <<>>, err |-> msg, warnings |-> <<>>]

\* a variant of applyFilters that sorts the points by timestamp first
applyFiltersSorted(r, acc) ==
    [points   |-> IF r.processing.RemoveDuplicates
                  THEN RemoveDuplicates(CHOOSE q \in SortByTimestamp(acc.points) : TRUE)
                  ELSE CHOOSE q \in SortByTimestamp(acc.points) : TRUE,
     err      |-> "",
     warnings |-> acc.warnings]

\* a variant of applyFilters that never removes duplicates
applyFiltersNone(r, acc) ==
    [points |-> acc.points, err |-> "", warnings |-> acc.warnings]

\* the end of parseRecords, "Apply data processing filters as configured",
\* on the points and warnings acc the loop produced
applyFilters(r, acc) ==
    [points   |-> IF r.processing.RemoveDuplicates
                  THEN RemoveDuplicates(acc.points) ELSE acc.points,
     err      |-> "",
     warnings |-> acc.warnings]

\* parseRecords from "colIndices, err := r.findColumnIndices(records)" on;
\* cols is the result of findColumnIndices
parseWithColumns(r, records, startRow, cols) ==
    IF cols.err # "" THEN Failed(cols.err)
    ELSE applyFilters(r, recordLoop(r, records, startRow, cols.indices))

\* parseRecords from "Validate that we have data to process" on; records is
\* the table after the skip
parseSkipped(r, records) ==
    IF Len(records) < 1 THEN Failed("CSV file has no data rows")
    ELSE IF r.config.HasHeader /\ Len(records) < 2
    THEN Failed("CSV file must have at least a header and one data row")
    ELSE parseWithColumns(r, records, IF r.config.HasHeader THEN 1 ELSE 0,
                          findColumnIndices(r.config, records))

parseRecords(r, records) == parseSkipped(r, skipRows(r.config, records))

\* encoding/csv Reader.ReadAll with FieldsPerRecord = 0: every record has as
\* many fields as the first.  A line of the file is given by its fields.
csvReadAll(lines) ==
    IF \E i \in 1..Len(lines) : Len(lines[i]) # Len(lines[1])
    THEN [records |-> <<>>, err |-> "wrong number of fields"]
    ELSE [records |-> lines, err |-> ""]

\* a variant of ReadFile that counts the fields of the lines left after the
\* skip only
ReadFileSkippingFirst(r, opens, lines) ==
    IF ~opens THEN Failed("cannot open file")
    ELSE IF csvReadAll(skipRows(r.config, lines)).err # ""
    THEN Failed("cannot read CSV")
    ELSE parseRecords(r, lines)

\* opens: whether os.Open succeeds; lines: the content of the file
ReadFile(r, opens, lines) ==
    LET read == csvReadAll(lines)
    IN  IF ~opens THEN Failed("cannot open file")
        ELSE IF read.err # "" THEN Failed("cannot read CSV")
        ELSE parseRecords(r, read.records)

(***************************************************************************)
(* The input files and configurations explored.                            *)
(***************************************************************************)
\* # trip
\* (a comment line, one field)
LineComment ==
    <<<<"#", " ", "t", "r", "i", "p">>>>

\* Timestamp,lat,lng,title
LineHeader ==
    <<<<"T", "i", "m", "e", "s", "t", "a", "m", "p">>,
      <<"l", "a", "t">>,
      <<"l", "n", "g">>,
      <<"t", "i", "t", "l", "e">>>>

\* timestamp,latitude,alt,title
\* (a header with no longitude column)
LineHeaderNoLng ==
    <<<<"t", "i", "m", "e", "s", "t", "a", "m", "p">>,
      <<"l", "a", "t", "i", "t", "u", "d", "e">>,
      <<"a", "l", "t">>,
      <<"t", "i", "t", "l", "e">>>>

\* 2025-10-28T09:15:00Z,37.7749,-122.4194,A
LineA ==
    <<<<"2", "0", "2", "5", "-", "1", "0", "-", "2", "8", "T", "0", "9",
        ":", "1", "5", ":", "0", "0", "Z">>,
      <<"3", "7", ".", "7", "7", "4", "9">>,
      <<"-", "1", "2", "2", ".", "4", "1", "9", "4">>,
      <<"A">>>>

\*  1761642000, 37.7749 ,-122.4194,B
\* (the place of LineA, a quarter of an hour earlier, as epoch seconds)
LineB ==
    <<<<" ", "1", "7", "6", "1", "6", "4", "2", "0", "0", "0">>,
      <<" ", "3", "7", ".", "7", "7", "4", "9", " ">>,
      <<"-", "1", "2", "2", ".", "4", "1", "9", "4">>,
      <<"B">>>>

\* 2025-10-28 09:00:00,37.7849,-122.4094, C 
\* (the instant of LineB at another place)
LineC ==
    <<<<"2", "0", "2", "5", "-", "1", "0", "-", "2", "8", " ", "0", "9",
        ":", "0", "0", ":", "0", "0">>,
      <<"3", "7", ".", "7", "8", "4", "9">>,
      <<"-", "1", "2", "2", ".", "4", "0", "9", "4">>,
      <<" ", "C", " ">>>>

\* 2025-10-28T09:15:00Z,north,-122.4194,E
LineBadLat ==
    <<<<"2", "0", "2", "5", "-", "1", "0", "-", "2", "8", "T", "0", "9",
        ":", "1", "5", ":", "0", "0", "Z">>,
      <<"n", "o", "r", "t", "h">>,
      <<"-", "1", "2", "2", ".", "4", "1", "9", "4">>,
      <<"E">>>>

Lines ==
    {LineComment, LineHeader, LineHeaderNoLng, LineA, LineB, LineC,
     LineBadLat}

Files == UNION {[1..n -> Lines] : n \in 0..MaxLines}

\* config.CSVFormatConfig and config.ProcessingConfig
Configs ==
    [config : [HasHeader : BOOLEAN, SkipRows : 0..MaxSkipRows,
               TimestampColumn : {<<>>}, LatitudeColumn : {<<>>},
               LongitudeColumn : {<<>>}, TitleColumn : {<<>>},
               DescriptionColumn : {<<>>}],
     processing : [RemoveDuplicates : BOOLEAN, TimestampFormats : {<<>>}]]

(***************************************************************************)
(* config.Config: the Google Maps API key.                                 *)
(***************************************************************************)
HasPrefix(s, prefix) ==
    Len(s) >= Len(prefix) /\ SubSeq(s, 1, Len(prefix)) = prefix

HasSuffix(s, suffix) ==
    Len(s) >= Len(suffix) /\ SubSeq(s, Len(s) - Len(suffix) + 1, Len(s)) = suffix

\* os.Getenv: the value of the variable, empty if it is not set; env maps the
\* names of the variables that are set to their values
Getenv(env, name) == IF name \in DOMAIN env THEN env[name] ELSE <<>>

\* ResolveAPIKey once the key is known to be "${" envVar "}"
resolveFromEnv(key, envVar, envValue) ==
    IF envValue # <<>>
    THEN [err |-> "", key |-> envValue]
    ELSE [err |-> "environment variable is not set", key |-> key]

\* a variant of ResolveAPIKey that takes the value of the variable even when
\* it is empty
ResolveAPIKeyFromAnyValue(key, env) ==
    IF key = <<>>
    THEN [err |-> "google Maps API key is required", key |-> key]
    ELSE IF key = <<"D", "E", "M", "O">>
    THEN [err |-> "", key |-> key]
    ELSE IF HasPrefix(key, <<"$", "{">>) /\ HasSuffix(key, <<"}">>)
    THEN [err |-> "", key |-> Getenv(env, SubSeq(key, 3, Len(key) - 1))]
    ELSE [err |-> "", key |-> key]

\* key: c.GoogleMaps.APIKey; the result is the error and the key afterwards
ResolveAPIKey(key, env) ==
    IF key = <<>>
    THEN [err |-> "google Maps API key is required", key |-> key]
    ELSE IF key = <<"D", "E", "M", "O">>
    THEN [err |-> "", key |-> key]
    ELSE IF HasPrefix(key, <<"$", "{">>) /\ HasSuffix(key, <<"}">>)
    THEN resolveFromEnv(key, SubSeq(key, 3, Len(key) - 1),
                        Getenv(env, SubSeq(key, 3, Len(key) - 1)))
    ELSE [err |-> "", key |-> key]

(***************************************************************************)
(* main: the stages from reading the CSV file on.                          *)
(***************************************************************************)
VARIABLES
    cfg,        \* the configuration main runs with
    opens,      \* whether the CSV file can be opened
    file,       \* the lines of the CSV file
    pc,         \* the stage main is about to run
    points,     \* the variable points of main
    err,        \* the error ReadFile returned, "" for nil
    warnings,   \* the "Skipping row" warnings printed
    fatal,      \* the message of the log.Fatal that ended the run, "" if none
    rendered,   \* the points handed to generator.Generate
    call,       \* a call of a function of the packages on its own: its name
                \* and arguments
    ret,        \* what that call returned
    flags,      \* the command line flags parseFlags returned
    environ     \* the environment of the process: os.Environ

vars ==
    <<cfg, opens, file, pc, points, err, warnings, fatal, rendered, call, ret,
      flags, environ>>

\* no function is called on its own in a run of main
NoCall == [fn |-> "", args |-> <<>>]

\* the call has not returned
Pending == [done |-> FALSE, val |-> <<>>]

\* Flags with no flag given on the command line
NoFlags == [CSVFile |-> <<>>, APIKey |-> <<>>, Output |-> <<>>]

Init ==
    /\ cfg \in Configs
    /\ opens \in BOOLEAN
    /\ file \in Files
    /\ (~opens => file = <<>>)
    /\ pc = "ReadFile"
    /\ points = <<>>
    /\ err = ""
    /\ warnings = <<>>
    /\ fatal = ""
    /\ rendered = <<>>
    /\ call = NoCall
    /\ ret = Pending
    /\ flags = NoFlags
    /\ environ = <<>>

\* main once ReadFile has returned res: log.Fatalf on an error
ReadFileReturns(res) ==
    /\ points' = res.points
    /\ err' = res.err
    /\ warnings' = res.warnings
    /\ IF res.err # ""
       THEN pc' = "fatal" /\ fatal' = "Error reading CSV file"
       ELSE pc' = "IsEmpty" /\ fatal' = fatal

\* points, err := reader.ReadFile(cfg.Input.CSVFile)
MainReadFile ==
    /\ pc = "ReadFile"
    /\ ReadFileReturns(ReadFile(cfg, opens, file))
    /\ UNCHANGED <<cfg, opens, file, rendered, call, ret, flags,
                 environ>>

\* a variant of MainIsEmpty that goes on to sort whatever ReadFile returned
MainIsEmptyIgnored ==
    /\ pc = "IsEmpty"
    /\ pc' = "SortByTimestamp"
    /\ UNCHANGED <<cfg, opens, file, points, err, warnings, fatal, rendered, call,
                 ret, flags, environ>>

\* if points.IsEmpty() { log.Fatal(...) }
MainIsEmpty ==
    /\ pc = "IsEmpty"
    /\ IF IsEmpty(points)
       THEN pc' = "fatal" /\ fatal' = "No valid GPS points found in CSV file"
       ELSE pc' = "SortByTimestamp" /\ fatal' = fatal
    /\ UNCHANGED <<cfg, opens, file, points, err, warnings, rendered, call, ret, flags,
                 environ>>

\* points.SortByTimestamp()
MainSortByTimestamp ==
    /\ pc = "SortByTimestamp"
    /\ points' \in SortByTimestamp(points)
    /\ pc' = "Generate"
    /\ UNCHANGED <<cfg, opens, file, err, warnings, fatal, rendered, call, ret, flags,
                 environ>>

\* generator.Generate(points, cfg.Output.HTMLFile); written: whether the
\* template is rendered and the output file written
MainGenerate ==
    /\ pc = "Generate"
    /\ rendered' = points
    /\ \E written \in BOOLEAN :
         IF written
         THEN pc' = "done" /\ fatal' = fatal
         ELSE pc' = "fatal" /\ fatal' = "Error generating map"
    /\ UNCHANGED <<cfg, opens, file, points, err, warnings, call, ret, flags,
                 environ>>

Next == MainReadFile \/ MainIsEmpty \/ MainSortByTimestamp \/ MainGenerate

Spec == Init /\ [][Next]_vars

(***************************************************************************)
(* main from its first statement: the configuration is loaded, overridden  *)
(* by the flags, its API key resolved, and validated, before the CSV file  *)
(* is read.  Of the configuration the model keeps what these stages and    *)
(* the reader use.                                                         *)
(***************************************************************************)
\* the name of the variable overrideConfigWithFlags reads
EnvGoogleMapsAPIKey ==
    <<"G", "O", "O", "G", "L", "E", "_", "M", "A", "P", "S", "_", "A", "P",
      "I", "_", "K", "E", "Y">>

\* "${GOOGLE_MAPS_API_KEY}"
PlaceholderGoogleMapsAPIKey == <<"$", "{">> \o EnvGoogleMapsAPIKey \o <<"}">>

\* cfg before config.Load has returned
NoConfig == [loaded |-> FALSE]

\* what the configuration file can decode to: config.Config with
\* GoogleMaps.APIKey, Input.CSVFile, Output.HTMLFile, Input.CSVFormat and
\* Processing
LoadedConfigs ==
    [loaded : {TRUE},
     APIKey : {<<>>, <<"D", "E", "M", "O">>, PlaceholderGoogleMapsAPIKey},
     CSVFile : {<<>>, <<"a", ".", "c", "s", "v">>},
     HTMLFile : {<<>>, <<"m", ".", "h", "t", "m", "l">>},
     config : {c.config : c \in {d \in Configs : ~d.config.HasHeader /\ d.config.SkipRows = 0}},
     processing : {c.processing : c \in Configs}]

\* the flags -csv, -apikey and -out
FlagSets ==
    [CSVFile : {<<>>, <<"b", ".", "c", "s", "v">>},
     APIKey : {<<>>, <<"A", "I", "z", "a">>},
     Output : {<<>>, <<"o", ".", "h", "t", "m", "l">>}]

MainEnvironments == {<<>>, EnvGoogleMapsAPIKey :> <<"s", "e", "c", "r", "e", "t">>}

MainLines == {LineA, LineB, LineBadLat}

MainFiles == UNION {[1..n -> MainLines] : n \in 0..(MaxLines - 1)}

MainInit ==
    /\ cfg = NoConfig
    /\ flags \in FlagSets
    /\ environ \in MainEnvironments
    /\ opens \in BOOLEAN
    /\ file \in MainFiles
    /\ (~opens => file = <<>>)
    /\ pc = "Load"
    /\ points = <<>>
    /\ err = ""
    /\ warnings = <<>>
    /\ fatal = ""
    /\ rendered = <<>>
    /\ call = NoCall
    /\ ret = Pending

\* what main leaves as it is until ReadFile
beforeReadFile ==
    <<opens, file, points, err, warnings, rendered, call, ret, flags, environ>>

\* cfg, err := config.Load(flags.ConfigFile): the file cannot be opened or
\* decoded, or decodes to a configuration
MainLoad ==
    /\ pc = "Load"
    /\ \/ pc' = "fatal" /\ fatal' = "Error loading configuration" /\ cfg' = cfg
       \/ pc' = "overrideConfigWithFlags" /\ fatal' = fatal /\ cfg' \in LoadedConfigs
    /\ UNCHANGED beforeReadFile

\* the API key after overrideConfigWithFlags; envKey is
\* os.Getenv("GOOGLE_MAPS_API_KEY")
overrideAPIKey(key, flag, envKey) ==
    IF flag # <<>> THEN flag
    ELSE IF (key = <<>> \/ key = PlaceholderGoogleMapsAPIKey) /\ envKey # <<>>
    THEN envKey
    ELSE key

\* c after overrideConfigWithFlags(c, f); the map title is not kept
overrideConfigWithFlags(c, f, e) ==
    [c EXCEPT !.CSVFile = IF f.CSVFile # <<>> THEN f.CSVFile ELSE @,
              !.APIKey = overrideAPIKey(@, f.APIKey, Getenv(e, EnvGoogleMapsAPIKey)),
              !.HTMLFile = IF f.Output # <<>> THEN f.Output ELSE @]

MainOverrideConfigWithFlags ==
    /\ pc = "overrideConfigWithFlags"
    /\ cfg' = overrideConfigWithFlags(cfg, flags, environ)
    /\ pc' = "ResolveAPIKey"
    /\ fatal' = fatal
    /\ UNCHANGED beforeReadFile

\* main once cfg.ResolveAPIKey() has returned r
ResolveAPIKeyReturns(r) ==
    /\ cfg' = [cfg EXCEPT !.APIKey = r.key]
    /\ IF r.err # ""
       THEN pc' = "fatal" /\ fatal' = "Error resolving API key"
       ELSE pc' = "Validate" /\ fatal' = fatal

MainResolveAPIKey ==
    /\ pc = "ResolveAPIKey"
    /\ ResolveAPIKeyReturns(ResolveAPIKey(cfg.APIKey, environ))
    /\ UNCHANGED beforeReadFile

\* the error of Config.Validate, "" for nil
Validate(c) ==
    IF c.APIKey = <<>> THEN "google Maps API key is required"
    ELSE IF c.CSVFile = <<>> THEN "input CSV file is required"
    ELSE IF c.HTMLFile = <<>> THEN "output HTML file is required"
    ELSE ""

MainValidate ==
    /\ pc = "Validate"
    /\ IF Validate(cfg) # ""
       THEN pc' = "fatal" /\ fatal' = "Configuration validation failed"
       ELSE pc' = "ReadFile" /\ fatal' = fatal
    /\ cfg' = cfg
    /\ UNCHANGED beforeReadFile

MainNext ==
    \/ MainLoad
    \/ MainOverrideConfigWithFlags
    \/ MainResolveAPIKey
    \/ MainValidate
    \/ MainReadFile
    \/ MainIsEmpty
    \/ MainSortByTimestamp
    \/ MainGenerate

MainSpec == MainInit /\ [][MainNext]_vars

(***************************************************************************)
(* The functions of the packages called on their own, as the unit tests    *)
(* call them: one call, on arguments drawn from the sets below, and its    *)
(* return.                                                                 *)
(***************************************************************************)
\* longest collection a method of gps.Points is called on
MaxPoints == 3

\* three places: the second is the first to KeyDecimals places and differs
\* from it in the next
PlaceLat == <<105000000, 105000001, -30000000>>

PlaceLng == <<102500000, 102500000, -75000000>>

\* the points the collections are made of: of two instants at each of the
\* first two places and one at the third
SomePoints ==
    {Point(Instant(20389, 32400, 0), PlaceLat[1], PlaceLng[1], <<"a">>, <<>>),
     Point(Instant(20389, 30000, 0), PlaceLat[1], PlaceLng[1], <<"b">>, <<"x">>),
     Point(Instant(20389, 32400, 0), PlaceLat[2], PlaceLng[2], <<"c">>, <<>>),
     Point(Instant(20388, 86399, 5), PlaceLat[2], PlaceLng[2], <<>>, <<>>),
     Point(Instant(20390, 0, 0), PlaceLat[3], PlaceLng[3], <<"e">>, <<>>)}

Collections == UNION {[1..n -> SomePoints] : n \in 0..MaxPoints}

PointsMethods ==
    {"RemoveDuplicates", "Bounds", "Center", "TimeRange", "IsEmpty", "First",
     "Last", "SortByTimestamp"}

PointsCalls == [fn : PointsMethods, args : {<<p>> : p \in Collections}]

\* the header cells the loop over the header is given
HeaderCells ==
    {<<"T", "i", "m", "e", "s", "t", "a", "m", "p">>,
     <<"T", "I", "M", "E">>,
     <<"d", "a", "t", "e", "t", "i", "m", "e">>,
     <<"W", "h", "e", "n">>,
     <<"w", "h", "e", "n">>,
     <<"d", "a", "t", "e">>,
     <<"L", "A", "T">>,
     <<"l", "a", "t", "i", "t", "u", "d", "e">>,
     <<" ", "l", "a", "t">>,
     <<"L", "o", "n">>,
     <<"l", "n", "g">>,
     <<"l", "o", "n", "g", "i", "t", "u", "d", "e">>,
     <<"x">>,
     <<"t", "i", "t", "l", "e">>,
     <<"N", "a", "m", "e">>,
     <<"n", "o", "t", "e">>}

\* the names a column can be configured with: none, or one name
TimestampNames == {<<>>, <<"W", "h", "e", "n">>}

LatitudeNames == {<<>>, <<"L", "a", "t">>}

LongitudeNames == {<<>>, <<"X">>}

TitleNames == {<<>>, <<"N", "A", "M", "E">>}

DescriptionNames == {<<>>, <<"N", "o", "t", "e">>}

\* config.CSVFormatConfig with column names
ColumnConfigs ==
    [HasHeader : BOOLEAN, SkipRows : 0..MaxSkipRows,
     TimestampColumn : TimestampNames, LatitudeColumn : LatitudeNames,
     LongitudeColumn : LongitudeNames, TitleColumn : TitleNames,
     DescriptionColumn : DescriptionNames]

\* Timestamp,LAT,lng,title,description
RowHeader ==
    <<<<"T", "i", "m", "e", "s", "t", "a", "m", "p">>,
      <<"L", "A", "T">>,
      <<"l", "n", "g">>,
      <<"t", "i", "t", "l", "e">>,
      <<"d", "e", "s", "c", "r", "i", "p", "t", "i", "o", "n">>>>

\* when,lat,lng,Name,note
RowHeaderNamed ==
    <<<<"w", "h", "e", "n">>,
      <<"l", "a", "t">>,
      <<"l", "n", "g">>,
      <<"N", "a", "m", "e">>,
      <<"n", "o", "t", "e">>>>

\* 2025-10-28T09:15:00Z,37.7749,-122.4194,A,first
RowData5 ==
    <<<<"2", "0", "2", "5", "-", "1", "0", "-", "2", "8", "T", "0", "9", ":", "1", "5", ":", "0", "0", "Z">>,
      <<"3", "7", ".", "7", "7", "4", "9">>,
      <<"-", "1", "2", "2", ".", "4", "1", "9", "4">>,
      <<"A">>,
      <<"f", "i", "r", "s", "t">>>>

\* 2025-10-28T09:20:00Z,37.7849,-122.4094,B
RowData4 ==
    <<<<"2", "0", "2", "5", "-", "1", "0", "-", "2", "8", "T", "0", "9", ":", "2", "0", ":", "0", "0", "Z">>,
      <<"3", "7", ".", "7", "8", "4", "9">>,
      <<"-", "1", "2", "2", ".", "4", "0", "9", "4">>,
      <<"B">>>>

\* 2025-10-28T09:25:00Z,37.7949,-122.3994
RowData3 ==
    <<<<"2", "0", "2", "5", "-", "1", "0", "-", "2", "8", "T", "0", "9", ":", "2", "5", ":", "0", "0", "Z">>,
      <<"3", "7", ".", "7", "9", "4", "9">>,
      <<"-", "1", "2", "2", ".", "3", "9", "9", "4">>>>

Rows == {RowHeader, RowHeaderNamed, RowData5, RowData4, RowData3}

\* most records a table given to the reader's functions has
MaxRows == 2

Tables == UNION {[1..n -> Rows] : n \in 0..MaxRows}

\* time,Timestamp,lat,LAT,lng
RowHeaderDoubled ==
    <<<<"t", "i", "m", "e">>,
      <<"T", "i", "m", "e", "s", "t", "a", "m", "p">>,
      <<"l", "a", "t">>,
      <<"L", "A", "T">>,
      <<"l", "n", "g">>>>

\* 2025-10-28T09:15:00Z,2025-10-28T09:30:00Z,37.7749,38.5,-122.4194
RowDataDoubled ==
    <<<<"2", "0", "2", "5", "-", "1", "0", "-", "2", "8", "T", "0", "9", ":", "1", "5", ":", "0", "0", "Z">>,
      <<"2", "0", "2", "5", "-", "1", "0", "-", "2", "8", "T", "0", "9", ":", "3", "0", ":", "0", "0", "Z">>,
      <<"3", "7", ".", "7", "7", "4", "9">>,
      <<"3", "8", ".", "5">>,
      <<"-", "1", "2", "2", ".", "4", "1", "9", "4">>>>

\* 2025-10-28T09:20:00Z,later,37.7849,north,-122.4094
RowDataHalf ==
    <<<<"2", "0", "2", "5", "-", "1", "0", "-", "2", "8", "T", "0", "9", ":", "2", "0", ":", "0", "0", "Z">>,
      <<"l", "a", "t", "e", "r">>,
      <<"3", "7", ".", "7", "8", "4", "9">>,
      <<"n", "o", "r", "t", "h">>,
      <<"-", "1", "2", "2", ".", "4", "0", "9", "4">>>>

\* the tables of a header with two timestamp cells and two latitude cells
\* and of rows under it
DoubledTables ==
    UNION {{<<RowHeaderDoubled>> \o t : t \in [1..n -> {RowDataDoubled, RowDataHalf}]} :
             n \in 0..MaxRows}

\* a Reader with the configuration c, no timestamp formats of its own, and
\* duplicates kept
ReaderOf(c) ==
    [config |-> c,
     processing |-> [RemoveDuplicates |-> FALSE, TimestampFormats |-> <<>>]]

\* one iteration of the loop over the header, on the cell at position 0
HeaderStepCalls ==
    [fn : {"headerStep"},
     args : {<<c, col>> : c \in {d \in ColumnConfigs : d.HasHeader /\ d.SkipRows = 0},
                          col \in HeaderCells}]

FindColumnIndicesCalls ==
    [fn : {"findColumnIndices"},
     args : {<<c, records>> : c \in {d \in ColumnConfigs : d.SkipRows = 0},
                              records \in Tables \cup DoubledTables}]

ParseRecordsCalls ==
    [fn : {"parseRecords"},
     args : {<<ReaderOf(c), records>> :
               c \in {d \in ColumnConfigs : d.LatitudeColumn = <<>> /\ d.LongitudeColumn = <<>>},
               records \in Tables \cup DoubledTables}]

\* the layout "2006", which is not among the default formats
LayoutYear == <<"2006">>

\* the values of processing.TimestampFormats: none; the day/month layout
\* before the month/day layout; the year alone
FormatLists == {<<>>, <<LayoutEuropean, LayoutUS>>, <<LayoutYear>>}

\* the cells parseTimestamp is called on:
\*   "2025-10-28T09:15:00Z"
\*   "2025-10-28 09:00:00"
\*   "03/04/2025 10:00:00"
\*   "13/04/2025 10:00:00"
\*   "04/13/2025 10:00:00"
\*   "2025-10-28"
\*   " 1730131445 "
\*   "-1"
\*   "+86400"
\*   "2025"
\*   "12.5"
\*   "yesterday"
\*   ""
Tokens ==
    {<<"2", "0", "2", "5", "-", "1", "0", "-", "2", "8", "T", "0", "9",
       ":", "1", "5", ":", "0", "0", "Z">>,
     <<"2", "0", "2", "5", "-", "1", "0", "-", "2", "8", " ", "0", "9",
       ":", "0", "0", ":", "0", "0">>,
     <<"0", "3", "/", "0", "4", "/", "2", "0", "2", "5", " ", "1", "0",
       ":", "0", "0", ":", "0", "0">>,
     <<"1", "3", "/", "0", "4", "/", "2", "0", "2", "5", " ", "1", "0",
       ":", "0", "0", ":", "0", "0">>,
     <<"0", "4", "/", "1", "3", "/", "2", "0", "2", "5", " ", "1", "0",
       ":", "0", "0", ":", "0", "0">>,
     <<"2", "0", "2", "5", "-", "1", "0", "-", "2", "8">>,
     <<" ", "1", "7", "3", "0", "1", "3", "1", "4", "4", "5", " ">>,
     <<"-", "1">>,
     <<"+", "8", "6", "4", "0", "0">>,
     <<"2", "0", "2", "5">>,
     <<"1", "2", ".", "5">>,
     <<"y", "e", "s", "t", "e", "r", "d", "a", "y">>,
     <<>>}

\* the configured keys ResolveAPIKey is called on:
\*   ""
\*   "DEMO"
\*   "demo"
\*   "AIza"
\*   "${K}"
\*   "${E}"
\*   "${U}"
\*   "${}"
\*   "${K"
\*   "$K}"
\*   "{K}"
APIKeys ==
    {<<>>,
     <<"D", "E", "M", "O">>,
     <<"d", "e", "m", "o">>,
     <<"A", "I", "z", "a">>,
     <<"$", "{", "K", "}">>,
     <<"$", "{", "E", "}">>,
     <<"$", "{", "U", "}">>,
     <<"$", "{", "}">>,
     <<"$", "{", "K">>,
     <<"$", "K", "}">>,
     <<"{", "K", "}">>}

\* the environments: nothing set; K set to "secret" and E set to the empty
\* string; K set to "${K}"
Environments ==
    {<<>>,
     (<<"K">> :> <<"s", "e", "c", "r", "e", "t">>) @@ (<<"E">> :> <<>>),
     (<<"K">> :> <<"$", "{", "K", "}">>)}

ResolveAPIKeyCalls ==
    [fn : {"ResolveAPIKey"},
     args : {<<key, env>> : key \in APIKeys, env \in Environments}]

\* widest record parseRecord is called on
MaxCells == 5

\* the cells of those records:
\*   "2025-10-28T09:15:00Z"
\*   " 37.7749 "
\*   "-200.5"
\*   " A "
\* (an instant; a number with blanks around it; a number that is no latitude
\* and no longitude; a word with blanks around it)
Cells ==
    {<<"2", "0", "2", "5", "-", "1", "0", "-", "2", "8", "T", "0", "9", ":",
       "1", "5", ":", "0", "0", "Z">>,
     <<" ", "3", "7", ".", "7", "7", "4", "9", " ">>,
     <<"-", "2", "0", "0", ".", "5">>,
     <<" ", "A", " ">>}

Records == UNION {[1..n -> Cells] : n \in 2..MaxCells}

\* columnIndices: the positions of a table of five columns without header; of
\* one of three; of a header with the longitude last; of a header with the
\* title beyond the records
IndexSets ==
    {[timestamp |-> 0, latitude |-> 1, longitude |-> 2, title |-> 3,
      description |-> 4],
     [timestamp |-> 0, latitude |-> 1, longitude |-> 2, title |-> -1,
      description |-> -1],
     [timestamp |-> 1, latitude |-> 0, longitude |-> 4, title |-> 2,
      description |-> 3],
     [timestamp |-> 0, latitude |-> 2, longitude |-> 1, title |-> MaxCells,
      description |-> -1]}

ParseRecordCalls ==
    [fn : {"parseRecord"},
     args : {<<ReaderOf(c), record, indices>> :
               c \in {d \in ColumnConfigs : /\ d.HasHeader /\ d.SkipRows = 0
                                            /\ d.TimestampColumn = <<>>
                                            /\ d.LatitudeColumn = <<>>
                                            /\ d.LongitudeColumn = <<>>
                                            /\ d.TitleColumn = <<>>
                                            /\ d.DescriptionColumn = <<>>},
               record \in Records, indices \in IndexSets}]

ParseTimestampCalls ==
    [fn : {"parseTimestamp"},
     args : {<<formats, s>> : formats \in FormatLists, s \in Tokens}]

Calls ==
    PointsCalls \cup HeaderStepCalls \cup FindColumnIndicesCalls
      \cup ParseRecordsCalls \cup ParseTimestampCalls \cup ResolveAPIKeyCalls
      \cup ParseRecordCalls

LibInit ==
    /\ call \in Calls
    /\ ret = Pending
    /\ cfg \in {c \in Configs : ~c.config.HasHeader /\ c.config.SkipRows = 0
                                 /\ ~c.processing.RemoveDuplicates}
    /\ opens = FALSE
    /\ file = <<>>
    /\ pc = "call"
    /\ points = <<>>
    /\ err = ""
    /\ warnings = <<>>
    /\ fatal = ""
    /\ rendered = <<>>
    /\ flags = NoFlags
    /\ environ = <<>>

\* the call is of fn and has not returned
Calling(fn) == call.fn = fn /\ ~ret.done

\* the call has returned val
Return(val) == [done |-> TRUE, val |-> val]

\* what a call leaves as it is
frame ==
    <<cfg, opens, file, pc, points, err, warnings, fatal, rendered, call, flags,
      environ>>

CallRemoveDuplicates ==
    /\ Calling("RemoveDuplicates")
    /\ ret' = Return(RemoveDuplicates(call.args[1]))
    /\ UNCHANGED frame

CallBounds ==
    /\ Calling("Bounds")
    /\ ret' = Return(Bounds(call.args[1]))
    /\ UNCHANGED frame

CallCenter ==
    /\ Calling("Center")
    /\ ret' = Return(Center(call.args[1]))
    /\ UNCHANGED frame

CallTimeRange ==
    /\ Calling("TimeRange")
    /\ ret' = Return(TimeRange(call.args[1]))
    /\ UNCHANGED frame

CallIsEmpty ==
    /\ Calling("IsEmpty")
    /\ ret' = Return(IsEmpty(call.args[1]))
    /\ UNCHANGED frame

CallFirst ==
    /\ Calling("First")
    /\ ret' = Return(First(call.args[1]))
    /\ UNCHANGED frame

CallLast ==
    /\ Calling("Last")
    /\ ret' = Return(Last(call.args[1]))
    /\ UNCHANGED frame

\* p.SortByTimestamp() sorts p in place and returns nothing: the value
\* returned here is p after the call, and call.args keeps p before it
CallSortByTimestamp ==
    /\ Calling("SortByTimestamp")
    /\ ret' \in {Return(q) : q \in SortByTimestamp(call.args[1])}
    /\ UNCHANGED frame

CallHeaderStep ==
    /\ Calling("headerStep")
    /\ ret' = Return(headerStep(call.args[1], call.args[2], 0, NoIndices))
    /\ UNCHANGED frame

CallFindColumnIndices ==
    /\ Calling("findColumnIndices")
    /\ ret' = Return(findColumnIndices(call.args[1], call.args[2]))
    /\ UNCHANGED frame

CallParseRecords ==
    /\ Calling("parseRecords")
    /\ ret' = Return(parseRecords(call.args[1], call.args[2]))
    /\ UNCHANGED frame

CallParseTimestamp ==
    /\ Calling("parseTimestamp")
    /\ ret' = Return(parseTimestamp(call.args[1], call.args[2]))
    /\ UNCHANGED frame

CallResolveAPIKey ==
    /\ Calling("ResolveAPIKey")
    /\ ret' = Return(ResolveAPIKey(call.args[1], call.args[2]))
    /\ UNCHANGED frame

CallParseRecord ==
    /\ Calling("parseRecord")
    /\ ret' = Return(parseRecord(call.args[1], call.args[2], call.args[3]))
    /\ UNCHANGED frame

LibNext ==
    \/ CallRemoveDuplicates
    \/ CallBounds
    \/ CallCenter
    \/ CallTimeRange
    \/ CallIsEmpty
    \/ CallFirst
    \/ CallLast
    \/ CallSortByTimestamp
    \/ CallHeaderStep
    \/ CallFindColumnIndices
    \/ CallParseRecords
    \/ CallParseTimestamp
    \/ CallResolveAPIKey
    \/ CallParseRecord

LibSpec == LibInit /\ [][LibNext]_vars

(***************************************************************************)
(* What ReadFile has seen when it returns.  A table is the records left    *)
(* once parseRecords has dropped the rows it skips; its data rows are the  *)
(* rows after the header row, if one is declared.                          *)
(***************************************************************************)
\* ReadFile has returned and main has not yet used the result
Returned ==
    pc = "IsEmpty" \/ (pc = "fatal" /\ fatal = "Error reading CSV file")

\* the file opens and encoding/csv reads it
Readable == opens /\ csvReadAll(file).err = ""

Table == skipRows(cfg.config, file)

StartRow == IF cfg.config.HasHeader THEN 1 ELSE 0

Columns == findColumnIndices(cfg.config, Table)

\* the table has the rows it needs and its columns are resolved
Resolved ==
    /\ Readable
    /\ Len(Table) >= StartRow + 1
    /\ Columns.err = ""

\* the result of record validation for each data row, in file order
RowResults ==
    [i \in 1..(Len(Table) - StartRow) |->
        parseRecord(cfg, Table[i + StartRow], Columns.indices)]

\* the data rows that pass record validation
ValidRows == {i \in DOMAIN RowResults : RowResults[i].err = ""}

\* the elements of p at the positions in S, in the order of p
At(p, S) ==
    LET upTo[n \in 0..Len(p)] ==
          IF n = 0 THEN <<>>
          ELSE IF n \in S THEN Append(upTo[n - 1], p[n]) ELSE upTo[n - 1]
    IN  upTo[Len(p)]

\* the points of the data rows that pass record validation, in file order
ValidPoints ==
    LET Passes(res) == res.err = ""
        valid == SelectSeq(RowResults, Passes)
    IN  [k \in 1..Len(valid) |-> valid[k].point]

\* the positions of p whose coordinates, to KeyDecimals places, are those of
\* no earlier position
FirstOfCoordinates(p) ==
    {k \in 1..Len(p) : \A j \in 1..(k - 1) : CoordKey(p[j]) # CoordKey(p[k])}

DuplicateRemoval == cfg.processing.RemoveDuplicates

(***************************************************************************)
(* C1                                                                      *)
(***************************************************************************)
\* C1 as stated: for a table with resolved columns and at least one valid
\* data row, ReadFile returns no error and as many points as there are data
\* rows that pass validation.
C1_LengthIsValidRowCount ==
    Returned /\ Resolved =>
        LET valid == ValidPoints
        IN  valid # <<>> => err = "" /\ Len(points) = Len(valid)

\* C1 amended: for a table with resolved columns and at least one valid data
\* row, ReadFile returns no error; the number of points is the number of
\* valid data rows when duplicate removal is not configured, and the number
\* of distinct coordinate keys among the valid rows when it is.
C1_LengthIsValidRowCountUpToDuplicates ==
    Returned /\ Resolved =>
        LET valid == ValidPoints
        IN  valid # <<>> =>
              /\ err = ""
              /\ Len(points) =
                   IF DuplicateRemoval
                   THEN Cardinality({CoordKey(valid[k]) : k \in 1..Len(valid)})
                   ELSE Len(valid)

\* a header, a valid row and a failing row: one point is returned
C1_Witness ==
    /\ pc = "IsEmpty"
    /\ cfg.config.HasHeader
    /\ Resolved
    /\ Cardinality(ValidRows) = 1
    /\ Len(RowResults) = 2
    /\ Len(points) = 1

(***************************************************************************)
(* C2                                                                      *)
(***************************************************************************)
\* C2 as stated: with resolved columns, when data rows fail validation
\* ReadFile returns no error, no failing row is in the output, and every
\* valid row is.
C2_FailingRowsDroppedValidRowsKept ==
    Returned /\ Resolved =>
        LET valid == ValidPoints
        IN  Len(valid) < Len(RowResults) => err = "" /\ points = valid

\* C2 amended: with resolved columns, when data rows fail validation
\* ReadFile returns no error; the output holds points of valid rows only, in
\* file order, and every valid row is in it except those that configured
\* duplicate removal drops for having the coordinates of an earlier valid
\* row.
C2_FailingRowsDroppedValidRowsKeptUpToDuplicates ==
    Returned /\ Resolved =>
        LET valid == ValidPoints
            first == FirstOfCoordinates(valid)
        IN  Len(valid) < Len(RowResults) =>
              /\ err = ""
              /\ \E S \in SUBSET (1..Len(valid)) :
                   /\ points = At(valid, S)
                   /\ \A k \in 1..Len(valid) :
                        k \notin S => DuplicateRemoval /\ k \notin first

\* a failing row between two valid rows: both valid rows are returned
C2_Witness ==
    /\ pc = "IsEmpty"
    /\ Resolved
    /\ Len(RowResults) = 3
    /\ ValidRows = {1, 3}
    /\ Len(points) = 2

(***************************************************************************)
(* C3                                                                      *)
(***************************************************************************)
\* C3: with resolved columns, when every data row fails validation ReadFile
\* returns an error.
C3_NoValidRowIsAnError ==
    Returned /\ Resolved /\ ValidPoints = <<>> => err # ""

(***************************************************************************)
(* C4                                                                      *)
(***************************************************************************)
EmptyOrInsufficientData ==
    {"CSV file has no data rows",
     "CSV file must have at least a header and one data row"}

\* C4: the first min(SkipRows, n) of the n rows read are discarded; when
\* that leaves no row, or one row where a header is declared, ReadFile
\* returns an empty or insufficient data error.
C4_SkipRowsAppliedUnconditionally ==
    /\ Returned
    /\ Readable
    /\ \/ cfg.config.SkipRows >= Len(file)
       \/ cfg.config.HasHeader /\ Len(file) - cfg.config.SkipRows = 1
    => err \in EmptyOrInsufficientData

(***************************************************************************)
(* C5                                                                      *)
(***************************************************************************)
\* a cell of the header row names the field
InHeader(configName, defaults) ==
    \E i \in 1..Len(Table[1]) :
        matchesColumn(ToLower(Table[1][i]), configName, defaults)

\* C5: with a header declared, when no cell of the header row names the
\* timestamp, or none the latitude, or none the longitude, ReadFile returns
\* an error and no point, and no data row has been parsed; the error is the
\* missing column error when there is a data row.
C5_MissingRequiredColumnFails ==
    /\ Returned
    /\ Readable
    /\ cfg.config.HasHeader
    /\ Len(Table) >= 1
    /\ \/ ~InHeader(cfg.config.TimestampColumn, TimestampDefaults)
       \/ ~InHeader(cfg.config.LatitudeColumn, LatitudeDefaults)
       \/ ~InHeader(cfg.config.LongitudeColumn, LongitudeDefaults)
    => /\ err # ""
       /\ points = <<>>
       /\ warnings = <<>>
       /\ Len(Table) >= 2 =>
            err = "CSV must contain timestamp, latitude, and longitude columns"

\* a header without a longitude column over a row that is valid by position
C5_Witness ==
    /\ pc = "fatal"
    /\ cfg.config.HasHeader
    /\ Table = <<LineHeaderNoLng, LineA>>
    /\ err = "CSV must contain timestamp, latitude, and longitude columns"

(***************************************************************************)
(* C6                                                                      *)
(***************************************************************************)
\* C6: without duplicate removal ReadFile returns the points of the valid
\* data rows in file order, whatever the order of their timestamps.
C6_IngestionKeepsFileOrder ==
    Returned /\ Resolved /\ ~DuplicateRemoval => points = ValidPoints

\* two valid rows, the later instant first, returned in that order
C6_Witness ==
    /\ pc = "IsEmpty"
    /\ ~DuplicateRemoval
    /\ Resolved
    /\ Len(points) = 2
    /\ Before(points[2].Timestamp, points[1].Timestamp)

(***************************************************************************)
(* C7                                                                      *)
(***************************************************************************)
\* C7: with duplicate removal configured ReadFile returns RemoveDuplicates
\* of the valid rows in file order, which keeps of the rows with the same
\* coordinates the first in file order; without it, rows with the same
\* coordinates are all returned.
C7_DuplicatesRemovedAfterParsing ==
    Returned /\ Resolved =>
        LET valid == ValidPoints
        IN  IF DuplicateRemoval
            THEN /\ points = RemoveDuplicates(valid)
                 /\ points = At(valid, FirstOfCoordinates(valid))
            ELSE /\ Len(points) = Len(valid)
                 /\ \A k \in 1..Len(points) : points[k] = valid[k]

\* two valid rows at one place, the later instant first: the first row is
\* the one returned
C7_Witness ==
    /\ pc = "IsEmpty"
    /\ DuplicateRemoval
    /\ Resolved
    /\ Len(ValidPoints) = 2
    /\ CoordKey(ValidPoints[1]) = CoordKey(ValidPoints[2])
    /\ Before(ValidPoints[2].Timestamp, ValidPoints[1].Timestamp)
    /\ points = <<ValidPoints[1]>>

(***************************************************************************)
(* C8, C9, C10                                                             *)
(***************************************************************************)
\* no element of p is before an earlier one
NonDecreasing(p) ==
    \A i, j \in 1..Len(p) : i < j => ~Before(p[j].Timestamp, p[i].Timestamp)

Occurrences(p, x) == Cardinality({k \in 1..Len(p) : p[k] = x})

\* q is a permutation of p
Permutation(p, q) ==
    /\ Len(p) = Len(q)
    /\ \A k \in 1..Len(p) : Occurrences(q, p[k]) = Occurrences(p, p[k])

\* the points of p at the instant t, in the order of p
AtInstant(p, t) ==
    At(p, {k \in 1..Len(p) : ~Before(p[k].Timestamp, t) /\ ~Before(t, p[k].Timestamp)})

\* C8: SortByTimestamp leaves the collection in non-decreasing timestamp
\* order and a permutation of what it was.
C8_SortedPermutation ==
    [][pc = "SortByTimestamp" => NonDecreasing(points') /\ Permutation(points, points')]_vars

\* the sort has changed the order of the points
C8_Witness ==
    /\ pc = "Generate"
    /\ NonDecreasing(points)
    /\ points # ReadFile(cfg, opens, file).points

\* C9: SortByTimestamp keeps points with equal timestamps in the order they
\* had.
C9_SortIsStable ==
    [][pc = "SortByTimestamp" =>
         \A k \in 1..Len(points) :
             AtInstant(points', points[k].Timestamp) = AtInstant(points, points[k].Timestamp)]_vars

Done(fn) == call.fn = fn /\ ret.done

\* the collection the method is called on
Receiver == call.args[1]

(***************************************************************************)
(* C11                                                                     *)
(***************************************************************************)
\* C11: RemoveDuplicates returns the points of the collection that are the
\* first of their 6-decimal coordinate key, in the order of the collection,
\* whatever the timestamp, title and description of the later ones; no two
\* points of the result have the same key and every key of the collection
\* is the key of a point of the result.
C11_RemoveDuplicatesKeepsFirstOfKey ==
    Done("RemoveDuplicates") =>
        LET p == Receiver
            q == ret.val
        IN  /\ q = At(p, FirstOfCoordinates(p))
            /\ \A i, j \in 1..Len(q) : i # j => CoordKey(q[i]) # CoordKey(q[j])
            /\ \A k \in 1..Len(p) : \E i \in 1..Len(q) : CoordKey(q[i]) = CoordKey(p[k])
            /\ \E S \in SUBSET (1..Len(p)) : q = At(p, S)

\* the first and the third point are at one place with different timestamps
\* and titles: the first and the second are returned
C11_Witness ==
    /\ Done("RemoveDuplicates")
    /\ Len(Receiver) = 3
    /\ CoordKey(Receiver[1]) = CoordKey(Receiver[3])
    /\ CoordKey(Receiver[1]) # CoordKey(Receiver[2])
    /\ Before(Receiver[3].Timestamp, Receiver[1].Timestamp)
    /\ Receiver[3].Title # Receiver[1].Title
    /\ ret.val = <<Receiver[1], Receiver[2]>>

(***************************************************************************)
(* C12                                                                     *)
(***************************************************************************)
\* C12: RemoveDuplicates of the result of RemoveDuplicates is that result;
\* the result is no longer than the collection, and empty for an empty
\* collection.
C12_RemoveDuplicatesIdempotent ==
    Done("RemoveDuplicates") =>
        /\ RemoveDuplicates(ret.val) = ret.val
        /\ Len(ret.val) <= Len(Receiver)
        /\ Receiver = <<>> => ret.val = <<>>

\* three points at one place: one is returned
C12_Witness ==
    /\ Done("RemoveDuplicates")
    /\ Len(Receiver) = 3
    /\ Len(ret.val) = 1
    /\ RemoveDuplicates(ret.val) = ret.val

(***************************************************************************)
(* C18                                                                     *)
(***************************************************************************)
\* C18: TimeRange returns the earliest and the latest timestamp of the
\* collection, whatever its order: each is the timestamp of a point, no
\* point is before the start or after the end, the start is not after the
\* end, and every rearrangement of the collection gives the same result; on
\* the empty collection both are the zero instant.
C18_TimeRangeIsMinMax ==
    Done("TimeRange") =>
        LET p == Receiver
            r == ret.val
        IN  IF p = <<>>
            THEN r.start = ZeroInstant /\ r.end = ZeroInstant
            ELSE /\ \E k \in 1..Len(p) : r.start = p[k].Timestamp
                 /\ \E k \in 1..Len(p) : r.end = p[k].Timestamp
                 /\ \A k \in 1..Len(p) :
                      /\ ~Before(p[k].Timestamp, r.start)
                      /\ ~Before(r.end, p[k].Timestamp)
                 /\ ~Before(r.end, r.start)
                 /\ \A o \in Orderings(Len(p)) : TimeRange(Rearranged(p, o)) = r

\* the latest point first, the earliest second
C18_Witness ==
    /\ Done("TimeRange")
    /\ Len(Receiver) = 3
    /\ Before(Receiver[2].Timestamp, Receiver[3].Timestamp)
    /\ Before(Receiver[3].Timestamp, Receiver[1].Timestamp)
    /\ ret.val = [start |-> Receiver[2].Timestamp, end |-> Receiver[1].Timestamp]

(***************************************************************************)
(* C19                                                                     *)
(***************************************************************************)
\* C19: Bounds returns the least and the greatest latitude and the least and
\* the greatest longitude of the collection, so that every point is in the
\* box; for one point the box is that point; for the empty collection it is
\* (0, 0, 0, 0).
C19_BoundsIsMinMax ==
    Done("Bounds") =>
        LET p == Receiver
            b == ret.val
        IN  IF p = <<>>
            THEN b = [minLat |-> 0, maxLat |-> 0, minLng |-> 0, maxLng |-> 0]
            ELSE /\ \E k \in 1..Len(p) : b.minLat = p[k].Latitude
                 /\ \E k \in 1..Len(p) : b.maxLat = p[k].Latitude
                 /\ \E k \in 1..Len(p) : b.minLng = p[k].Longitude
                 /\ \E k \in 1..Len(p) : b.maxLng = p[k].Longitude
                 /\ \A k \in 1..Len(p) :
                      /\ b.minLat <= p[k].Latitude /\ p[k].Latitude <= b.maxLat
                      /\ b.minLng <= p[k].Longitude /\ p[k].Longitude <= b.maxLng
                 /\ b.minLat <= b.maxLat /\ b.minLng <= b.maxLng
                 /\ Len(p) = 1 =>
                      /\ b.minLat = p[1].Latitude /\ b.maxLat = p[1].Latitude
                      /\ b.minLng = p[1].Longitude /\ b.maxLng = p[1].Longitude

\* three points, the first of which has neither the least nor the greatest
\* latitude, and the last of which has not the least longitude
C19_Witness ==
    /\ Done("Bounds")
    /\ Len(Receiver) = 3
    /\ ret.val.minLat < Receiver[1].Latitude
    /\ Receiver[1].Latitude < ret.val.maxLat
    /\ ret.val.minLng < Receiver[3].Longitude

(***************************************************************************)
(* C20                                                                     *)
(***************************************************************************)
\* the sum of f over the points of p
SumOver(p, f) ==
    LET sum[n \in 0..Len(p)] == IF n = 0 THEN 0 ELSE sum[n - 1] + p[n][f]
    IN  sum[Len(p)]

\* the fraction q is the number a over the number b
IsRatio(q, a, b) == q.den # 0 /\ q.num * b = a * q.den

\* C20: Center returns the sum of the latitudes over the number of points
\* and the sum of the longitudes over the number of points; for one point
\* these are its coordinates; for the empty collection it returns (0, 0) and
\* divides by nothing.
C20_CenterIsMean ==
    Done("Center") =>
        LET p == Receiver
            c == ret.val
        IN  IF p = <<>>
            THEN IsRatio(c.lat, 0, 1) /\ IsRatio(c.lng, 0, 1)
            ELSE /\ IsRatio(c.lat, SumOver(p, "Latitude"), Len(p))
                 /\ IsRatio(c.lng, SumOver(p, "Longitude"), Len(p))
                 /\ Len(p) = 1 =>
                      /\ IsRatio(c.lat, p[1].Latitude, 1)
                      /\ IsRatio(c.lng, p[1].Longitude, 1)

\* three points at two places: the center is at neither
C20_Witness ==
    /\ Done("Center")
    /\ Len(Receiver) = 3
    /\ \A k \in 1..3 : ~IsRatio(ret.val.lat, Receiver[k].Latitude, 1)
    /\ IsRatio(ret.val.lat, SumOver(Receiver, "Latitude"), 3)

(***************************************************************************)
(* C13                                                                     *)
(***************************************************************************)
\* the characters a and b are the same letter in either case, or the same
\* character
SameLetter(a, b) ==
    \/ a = b
    \/ \E k \in 1..26 : {a, b} = {UpperChars[k], LowerChars[k]}

\* the strings s and t are equal up to the case of their letters
EqualFold(s, t) ==
    /\ Len(s) = Len(t)
    /\ \A i \in 1..Len(s) : SameLetter(s[i], t[i])

RequiredFields == {"timestamp", "latitude", "longitude"}

\* the name configured for a field in the configuration c
ConfiguredName(c, field) ==
    CASE field = "timestamp" -> c.TimestampColumn
      [] field = "latitude" -> c.LatitudeColumn
      [] field = "longitude" -> c.LongitudeColumn
      [] field = "title" -> c.TitleColumn
      [] field = "description" -> c.DescriptionColumn

\* the names a header cell may have for a required field when none is
\* configured
Aliases(field) ==
    CASE field = "timestamp" ->
           {<<"t", "i", "m", "e", "s", "t", "a", "m", "p">>,
            <<"t", "i", "m", "e">>,
            <<"d", "a", "t", "e", "t", "i", "m", "e">>}
      [] field = "latitude" ->
           {<<"l", "a", "t", "i", "t", "u", "d", "e">>, <<"l", "a", "t">>}
      [] field = "longitude" ->
           {<<"l", "o", "n", "g", "i", "t", "u", "d", "e">>,
            <<"l", "o", "n">>,
            <<"l", "n", "g">>}

\* C13: a header cell is taken for a required field exactly when, a name
\* being configured for the field, the cell equals that name up to case, or,
\* no name being configured, the cell equals one of the field's default
\* names up to case; with a configured name the default names are not
\* accepted.
C13_HeaderCellMatchesField ==
    Done("headerStep") =>
        LET c == call.args[1]
            col == call.args[2]
        IN  \A field \in RequiredFields :
              /\ ret.val[field] \in {0, -1}
              /\ ret.val[field] = 0 <=>
                   IF ConfiguredName(c, field) # <<>>
                   THEN EqualFold(col, ConfiguredName(c, field))
                   ELSE \E a \in Aliases(field) : EqualFold(col, a)

\* the latitude column is configured as "Lat" and the cell is "LAT": it is
\* the latitude, and although "time" is not configured away, it is nothing
\* else
C13_Witness ==
    /\ Done("headerStep")
    /\ call.args[1].LatitudeColumn = <<"L", "a", "t">>
    /\ call.args[1].TimestampColumn = <<>>
    /\ call.args[2] = <<"L", "A", "T">>
    /\ ret.val.latitude = 0
    /\ ret.val.timestamp = -1
    /\ ret.val.longitude = -1

(***************************************************************************)
(* C14                                                                     *)
(***************************************************************************)
OptionalFields == {"title", "description"}

\* the index idx is what the header gives for a field whose configured name
\* is name, when only a configured name can match: absent, unless a name is
\* configured and idx is the position of a cell equal to it up to case
ResolvedByNameOnly(idx, name, header) ==
    IF \E k \in 1..Len(header) : name # <<>> /\ EqualFold(header[k], name)
    THEN idx \in 0..(Len(header) - 1) /\ EqualFold(header[idx + 1], name)
    ELSE idx = -1

\* C14: in header mode the title index and the description index are the
\* position of a header cell that equals the configured name up to case, and
\* -1 when no name is configured or no cell equals it, whatever the header
\* holds; so with no configured name every point parseRecords returns has an
\* empty title, and likewise an empty description.
C14_OptionalColumnsOnlyByConfiguredName ==
    /\ Done("headerStep") =>
         \A field \in OptionalFields :
           ResolvedByNameOnly(ret.val[field], ConfiguredName(call.args[1], field),
                              <<call.args[2]>>)
    /\ (/\ Done("findColumnIndices")
        /\ call.args[1].HasHeader
        /\ call.args[2] # <<>>
        /\ ret.val.err = "") =>
         \A field \in OptionalFields :
           ResolvedByNameOnly(ret.val.indices[field],
                              ConfiguredName(call.args[1], field), call.args[2][1])
    /\ (Done("parseRecords") /\ call.args[1].config.HasHeader) =>
         LET c == call.args[1].config
             q == ret.val.points
         IN  /\ c.TitleColumn = <<>> => \A k \in 1..Len(q) : q[k].Title = <<>>
             /\ c.DescriptionColumn = <<>> =>
                  \A k \in 1..Len(q) : q[k].Description = <<>>

\* the header has cells "title" and "description", the row under it has "A"
\* and "first" in those columns, no name is configured, and the point read
\* has neither title nor description
C14_Witness ==
    /\ Done("parseRecords")
    /\ call.args[1].config.HasHeader
    /\ call.args[1].config.TitleColumn = <<>>
    /\ call.args[1].config.DescriptionColumn = <<>>
    /\ call.args[2] = <<RowHeader, RowData5>>
    /\ ret.val.err = ""
    /\ Len(ret.val.points) = 1
    /\ ret.val.points[1].Title = <<>>
    /\ ret.val.points[1].Description = <<>>

(***************************************************************************)
(* C15                                                                     *)
(***************************************************************************)
\* the indices of a table without header whose first record has n cells
Positional(n) ==
    [timestamp |-> 0, latitude |-> 1, longitude |-> 2,
     title |-> IF n > 3 THEN 3 ELSE -1,
     description |-> IF n > 4 THEN 4 ELSE -1]

\* the number of cells of the first record of a table, 0 if it has none
FirstWidth(records) == IF records = <<>> THEN 0 ELSE Len(records[1])

\* C15: without header, findColumnIndices never fails and returns timestamp
\* 0, latitude 1, longitude 2, title 3 exactly when the first record has more
\* than 3 cells and description 4 exactly when it has more than 4, whatever
\* names are configured; and parseRecords reads the first record left after
\* the skip as a data row: every record, the first included, gives a point
\* or a warning, and the first gives the first point unless it gives a
\* warning.
C15_HeaderlessIsPositional ==
    /\ (Done("findColumnIndices") /\ ~call.args[1].HasHeader) =>
         /\ ret.val.err = ""
         /\ ret.val.indices = Positional(FirstWidth(call.args[2]))
    /\ (Done("parseRecords") /\ ~call.args[1].config.HasHeader) =>
         LET r == call.args[1]
             table == skipRows(r.config, call.args[2])
             first == parseRecord(r, table[1], Positional(Len(table[1])))
         IN  table # <<>> =>
               /\ ret.val.err = ""
               /\ Len(ret.val.points) + Len(ret.val.warnings) = Len(table)
               /\ IF first.err = ""
                  THEN ret.val.points # <<>> /\ ret.val.points[1] = first.point
                  ELSE ret.val.warnings # <<>> /\ ret.val.warnings[1].row = 1

\* no header, a title column and a timestamp column configured by names the
\* table does not hold: the first record, of five cells, is read as a point
\* with its fourth and fifth cells as title and description, the second, of
\* four cells, as a point with no description
C15_Witness ==
    /\ Done("parseRecords")
    /\ ~call.args[1].config.HasHeader
    /\ call.args[1].config.SkipRows = 0
    /\ call.args[1].config.TimestampColumn # <<>>
    /\ call.args[1].config.TitleColumn # <<>>
    /\ call.args[2] = <<RowData5, RowData4>>
    /\ Len(ret.val.points) = 2
    /\ ret.val.points[1].Title = <<"A">>
    /\ ret.val.points[1].Description = <<"f", "i", "r", "s", "t">>
    /\ ret.val.points[2].Title = <<"B">>
    /\ ret.val.points[2].Description = <<>>

(***************************************************************************)
(* C16, C17                                                                *)
(***************************************************************************)
\* the fallback formats in the order parseDefaultTimestamp lists them
FallbackOrder ==
    <<<<"2006", "-", "01", "-", "02", "T", "15", ":", "04", ":", "05", "Z">>,
      <<"2006", "-", "01", "-", "02", "T", "15", ":", "04", ":", "05", "-07:00">>,
      <<"2006", "-", "01", "-", "02", " ", "15", ":", "04", ":", "05">>,
      <<"01", "/", "02", "/", "2006", " ", "15", ":", "04", ":", "05">>,
      <<"02", "/", "01", "/", "2006", " ", "15", ":", "04", ":", "05">>,
      <<"2006", "-", "01", "-", "02", "T", "15", ":", "04", ":", "05", ".000", "Z">>,
      <<"2006", "-", "01", "-", "02">>>>

MonthDay == FallbackOrder[4]

DayMonth == FallbackOrder[5]

\* the formats tried on a cell, in order: the caller's, then the fallbacks
Attempts(formats) == formats \o FallbackOrder

\* the positions of the attempts that accept the token s
Accepting(formats, s) ==
    {k \in 1..Len(Attempts(formats)) : TimeParse(Attempts(formats)[k], s).ok}

Least(S) == CHOOSE k \in S : \A j \in S : k <= j

\* s is a decimal integer: an optional sign and one digit or more
IsInteger(s) ==
    \/ s # <<>> /\ AllDigits(s)
    \/ Len(s) >= 2 /\ s[1] \in {"+", "-"} /\ AllDigits(Tail(s))

\* the instant t is n seconds after the Unix epoch
SecondsAfterEpoch(t, n) ==
    /\ t.day * 86400 + t.sec = n
    /\ t.sec \in 0..86399
    /\ t.nsec = 0

\* the integer a decimal integer s writes
IntegerOf(s) ==
    IF s[1] = "-" THEN 0 - DigitsValue(Tail(s))
    ELSE IF s[1] = "+" THEN DigitsValue(Tail(s))
    ELSE DigitsValue(s)

\* C16: parseTimestamp returns what the first format that accepts the
\* trimmed cell gives, the caller's formats being tried in their order and
\* then the fallback formats in theirs; if none accepts it, it returns the
\* epoch-seconds reading if the cell is an integer, and fails otherwise.  So
\* a cell that both the month/day and the day/month layout accept is read as
\* month/day unless one of the caller's formats accepts it, and when no
\* format of the caller accepts the cell, it is read as day/month only if
\* the month/day layout rejects it.
C16_FirstSuccessfulFormatWins ==
    Done("parseTimestamp") =>
        LET formats == call.args[1]
            s == TrimSpace(call.args[2])
            accepting == Accepting(formats, s)
            custom == {k \in accepting : k <= Len(formats)}
            md == TimeParse(MonthDay, s)
            dm == TimeParse(DayMonth, s)
        IN  /\ IF accepting # {}
               THEN ret.val = TimeParse(Attempts(formats)[Least(accepting)], s)
               ELSE ret.val.ok <=> IsInteger(s)
            /\ (md.ok /\ dm.ok /\ custom = {}) => ret.val = md
            /\ (custom = {} /\ dm.ok /\ ret.val = dm /\ dm # md) => ~md.ok

\* "03/04/2025 10:00:00" with no format of the caller's: the fourth of March,
\* not the third of April
C16_Witness ==
    /\ Done("parseTimestamp")
    /\ call.args[1] = <<>>
    /\ TimeParse(MonthDay, call.args[2]).ok
    /\ TimeParse(DayMonth, call.args[2]).ok
    /\ ret.val.ok
    /\ ret.val.t = Instant(DaysFromCivil(2025, 3, 4), 36000, 0)
    /\ ret.val.t # Instant(DaysFromCivil(2025, 4, 3), 36000, 0)

\* C17: a trimmed cell that no format accepts and that is a decimal integer
\* n is read as the instant n seconds after the Unix epoch; a cell that some
\* format accepts is read by a format, not as epoch seconds; a cell that no
\* format accepts and that is not an integer is not read: parseTimestamp
\* fails.
C17_EpochSecondsLastResort ==
    Done("parseTimestamp") =>
        LET formats == call.args[1]
            s == TrimSpace(call.args[2])
            accepting == Accepting(formats, s)
        IN  /\ (accepting = {} /\ IsInteger(s)) =>
                 ret.val.ok /\ SecondsAfterEpoch(ret.val.t, IntegerOf(s))
            /\ (accepting # {}) =>
                 /\ ret.val.ok
                 /\ \E k \in accepting : ret.val = TimeParse(Attempts(formats)[k], s)
                 /\ IsInteger(s) => ~SecondsAfterEpoch(ret.val.t, IntegerOf(s))
            /\ (accepting = {} /\ ~IsInteger(s)) => ~ret.val.ok

\* " 1730131445 " with no format of the caller's: 2024-10-28T16:04:05Z
C17_Witness ==
    /\ Done("parseTimestamp")
    /\ call.args[1] = <<>>
    /\ Len(call.args[2]) = 12
    /\ Accepting(<<>>, TrimSpace(call.args[2])) = {}
    /\ IntegerOf(TrimSpace(call.args[2])) = 1730131445
    /\ ret.val.ok
    /\ ret.val.t = Instant(DaysFromCivil(2024, 10, 28), 16 * 3600 + 4 * 60 + 5, 0)

(***************************************************************************)
(* C21                                                                     *)
(***************************************************************************)
\* C21: on the empty collection IsEmpty returns true and First and Last
\* return nil; on any other collection IsEmpty returns false, First returns
\* the address of the element at position 0 and Last the address of the
\* element at position length - 1, which is the same element when the length
\* is 1.
C21_AccessorsOfPoints ==
    /\ Done("IsEmpty") => (ret.val <=> Receiver = <<>>)
    /\ Done("First") =>
         IF Receiver = <<>> THEN ret.val.nil
         ELSE ~ret.val.nil /\ ret.val.at = 0
    /\ Done("Last") =>
         IF Receiver = <<>> THEN ret.val.nil
         ELSE /\ ~ret.val.nil
              /\ ret.val.at = Len(Receiver) - 1
              /\ Len(Receiver) = 1 => ret.val = First(Receiver)

\* Last of three points of which the last differs from the first
C21_Witness ==
    /\ Done("Last")
    /\ Len(Receiver) = 3
    /\ Receiver[3] # Receiver[1]
    /\ ~ret.val.nil
    /\ Receiver[ret.val.at + 1] = Receiver[3]

(***************************************************************************)
(* C23                                                                     *)
(***************************************************************************)
\* the key is "${", a name, "}"
IsPlaceholder(key) ==
    Len(key) >= 3 /\ key[1] = "$" /\ key[2] = "{" /\ key[Len(key)] = "}"

\* the name between "${" and "}"
PlaceholderName(key) == [i \in 1..(Len(key) - 3) |-> key[i + 2]]

\* the variable called name is set to a value that is not empty
SetAndNotEmpty(env, name) == name \in DOMAIN env /\ env[name] # <<>>

\* C23: ResolveAPIKey fails on the empty key; on a key "${VAR}" it succeeds
\* and leaves the value of VAR as the key when VAR is set and not empty, and
\* fails and leaves the key as it was when VAR is unset or empty; on any
\* other key, "DEMO" included, it succeeds and leaves the key as it was.
C23_ResolveAPIKey ==
    Done("ResolveAPIKey") =>
        LET key == call.args[1]
            env == call.args[2]
        IN  IF key = <<>> THEN ret.val.err # ""
            ELSE IF IsPlaceholder(key)
            THEN IF SetAndNotEmpty(env, PlaceholderName(key))
                 THEN ret.val.err = "" /\ ret.val.key = env[PlaceholderName(key)]
                 ELSE ret.val.err # "" /\ ret.val.key = key
            ELSE ret.val.err = "" /\ ret.val.key = key

\* "${E}" where E is set to the empty string: an error, the key as it was
C23_Witness ==
    /\ Done("ResolveAPIKey")
    /\ call.args[1] = <<"$", "{", "E", "}">>
    /\ <<"E">> \in DOMAIN call.args[2]
    /\ ret.val.err # ""
    /\ ret.val.key = call.args[1]

(***************************************************************************)
(* C22                                                                     *)
(***************************************************************************)
\* the stages of main in the order the claim gives them, and the end
StageOrder ==
    <<"Load", "overrideConfigWithFlags", "ResolveAPIKey", "Validate",
      "ReadFile", "IsEmpty", "SortByTimestamp", "Generate", "done">>

\* the stage from is followed by the stage to
NextStage(from, to) ==
    \E k \in 1..(Len(StageOrder) - 1) : from = StageOrder[k] /\ to = StageOrder[k + 1]

\* C22: main goes through load, flag overrides, API key resolution,
\* validation, reading, the emptiness check, the sort and the generation in
\* that order and through nothing else; a stage that fails ends the run, and
\* a stage before the generation that fails ends it with nothing handed to
\* the generator; the generator is entered, and is handed, only a collection
\* that is not empty and is in non-decreasing order of timestamp.
C22_StagesInFixedOrder ==
    /\ [][/\ pc' # pc => (NextStage(pc, pc') \/ (pc' = "fatal" /\ pc # "done"))
          /\ pc' = "fatal" <=> fatal' # ""
          /\ pc \in {"fatal", "done"} => pc' = pc]_vars
    /\ [](pc = "Generate" => points # <<>> /\ NonDecreasing(points))
    /\ [](rendered # <<>> => NonDecreasing(rendered))
    /\ []((pc = "done" \/ fatal = "Error generating map") <=> rendered # <<>>)

\* a run that has reached the generation: the key came from the environment,
\* the file had the later point first, and the sort has put it second
C22_Witness ==
    /\ pc = "Generate"
    /\ flags.APIKey = <<>>
    /\ EnvGoogleMapsAPIKey \in DOMAIN environ
    /\ cfg.APIKey = environ[EnvGoogleMapsAPIKey]
    /\ file = <<LineA, LineB>>
    /\ Len(points) = 2
    /\ points[1].Title = <<"B">>
    /\ Before(points[1].Timestamp, points[2].Timestamp)

(***************************************************************************)
(* C24                                                                     *)
(***************************************************************************)
\* the record does not reach one of the three required indices
TooShort(record, indices) ==
    \E field \in RequiredFields : Len(record) <= indices[field]

\* the cell of the record at the index of the field
CellOf(record, indices, field) == record[indices[field] + 1]

\* the error parseRecord is to return when its checks are made in the order
\* column count, timestamp, latitude, longitude
FirstFailure(r, record, indices) ==
    IF TooShort(record, indices) THEN "insufficient columns"
    ELSE IF ~parseTimestamp(r.processing.TimestampFormats,
                            CellOf(record, indices, "timestamp")).ok
    THEN "invalid timestamp"
    ELSE IF ~ParseFloat(TrimSpace(CellOf(record, indices, "latitude"))).ok
    THEN "invalid latitude"
    ELSE IF ~ParseFloat(TrimSpace(CellOf(record, indices, "longitude"))).ok
    THEN "invalid longitude"
    ELSE ""

\* C24: the error of parseRecord is that of the first check that fails, the
\* checks being column count, timestamp, latitude and longitude in that
\* order; it is insufficient columns exactly when the length of the record is
\* at most one of the three required indices; and parseRecord returns a
\* point exactly when no check fails.
C24_ChecksInFixedOrder ==
    Done("parseRecord") =>
        LET r == call.args[1]
            record == call.args[2]
            indices == call.args[3]
        IN  /\ ret.val.err = FirstFailure(r, record, indices)
            /\ ret.val.err = "insufficient columns" <=> TooShort(record, indices)
            /\ ret.val.err # "" => ret.val.point = NoPoint

\* a record long enough whose timestamp cell and latitude cell are both
\* unreadable: the error is of the timestamp
C24_Witness ==
    /\ Done("parseRecord")
    /\ ~TooShort(call.args[2], call.args[3])
    /\ ~ParseFloat(TrimSpace(CellOf(call.args[2], call.args[3], "latitude"))).ok
    /\ ~ParseFloat(TrimSpace(CellOf(call.args[2], call.args[3], "longitude"))).ok
    /\ ret.val.err = "invalid timestamp"

(***************************************************************************)
(* C28                                                                     *)
(***************************************************************************)
\* t is s without the white space at its ends
IsTrimOf(t, s) ==
    /\ \E a \in 0..Len(s) :
         /\ a + Len(t) <= Len(s)
         /\ t = SubSeq(s, a + 1, a + Len(t))
         /\ \A i \in 1..Len(s) : (i <= a \/ i > a + Len(t)) => s[i] \in SpaceChars
    /\ t # <<>> => t[1] \notin SpaceChars /\ t[Len(t)] \notin SpaceChars

\* the text is what the optional column at index gives for the record
OptionalText(text, record, index) ==
    IF index # -1 /\ index < Len(record)
    THEN IsTrimOf(text, record[index + 1])
    ELSE text = <<>>

\* C28: the title of the point parseRecord returns is the cell at the title
\* index without the white space at its ends when that index is not -1 and
\* is less than the length of the record, and is empty otherwise; likewise
\* the description; and a record that passes the four checks on the required
\* columns is accepted whatever its optional indices are.
C28_OptionalColumnsTrimmedOrEmpty ==
    Done("parseRecord") =>
        LET r == call.args[1]
            record == call.args[2]
            indices == call.args[3]
        IN  /\ FirstFailure(r, record, indices) = "" => ret.val.err = ""
            /\ ret.val.err = "" =>
                 /\ OptionalText(ret.val.point.Title, record, indices.title)
                 /\ OptionalText(ret.val.point.Description, record,
                                 indices.description)

\* a record of four cells read with the indices 0 to 4: its fourth cell is
\* " A " and the title is "A"; it has no fifth cell and the description is
\* empty
C28_Witness ==
    /\ Done("parseRecord")
    /\ Len(call.args[2]) = 4
    /\ call.args[3].title = 3
    /\ call.args[3].description = 4
    /\ call.args[2][4] = <<" ", "A", " ">>
    /\ ret.val.err = ""
    /\ ret.val.point.Title = <<"A">>
    /\ ret.val.point.Description = <<>>

(***************************************************************************)
(* C29                                                                     *)
(***************************************************************************)
\* the decimal number s writes, in units of 10^-7: for the cells of Cells
\* that are numbers
DecimalValue(s) ==
    IF s = <<"3", "7", ".", "7", "7", "4", "9">> THEN 377749000
    ELSE IF s = <<"-", "2", "0", "0", ".", "5">> THEN 0 - 2005000000
    ELSE 0

\* the cell, trimmed, is a number
IsNumber(s) ==
    \E t \in {<<"3", "7", ".", "7", "7", "4", "9">>, <<"-", "2", "0", "0", ".", "5">>} :
       IsTrimOf(t, s)

\* the number of a cell that is a number
NumberOf(s) ==
    DecimalValue(CHOOSE t \in {<<"3", "7", ".", "7", "7", "4", "9">>,
                               <<"-", "2", "0", "0", ".", "5">>} : IsTrimOf(t, s))

C25_OneOutcomePerRow ==
    (Done("parseRecords") /\ ret.val.err = "") =>
        LET r == call.args[1]
            table == skipRows(r.config, call.args[2])
            start == IF r.config.HasHeader THEN 1 ELSE 0
            cols == findColumnIndices(r.config, table).indices
            res == [k \in (start + 1)..Len(table) |-> parseRecord(r, table[k], cols)]
            failing == {k \in DOMAIN res : res[k].err # ""}
            passing == DOMAIN res \ failing
            q == ret.val.points
            w == ret.val.warnings
        IN  /\ Len(q) + Len(w) = Len(table) - start
            /\ Len(w) = Cardinality(failing)
            /\ Len(q) = Cardinality(passing)
            /\ \A i \in 1..Len(w) :
                 /\ w[i].row \in failing
                 /\ w[i].reason = res[w[i].row].err
                 /\ \A j \in 1..Len(w) : i < j => w[i].row < w[j].row
            /\ \A i \in 1..Len(q) :
                 \E k \in passing :
                   /\ q[i] = res[k].point
                   /\ Cardinality({m \in passing : m < k}) = i - 1

\* a header and under it one row that is no data: no point, and one warning,
\* for row 2
C25_Witness ==
    /\ Done("parseRecords")
    /\ call.args[1].config.HasHeader
    /\ call.args[1].config.SkipRows = 0
    /\ Len(call.args[2]) = 2
    /\ ret.val.err = ""
    /\ ret.val.points = <<>>
    /\ ret.val.warnings = <<[row |-> 2, reason |-> "invalid timestamp"]>>

(***************************************************************************)
(* C26                                                                     *)
(***************************************************************************)
\* some line of the file has not as many fields as the first
Ragged == \E i \in 1..Len(file) : Len(file[i]) # Len(file[1])

\* C26: when the file opens and some line has not as many fields as the
\* first line, ReadFile returns the error of the CSV reading and no point,
\* whatever rows the configuration says to skip.
C26_FieldCountCheckedBeforeSkip ==
    (Returned /\ opens /\ Ragged) =>
        /\ err = "cannot read CSV"
        /\ points = <<>>
        /\ pc = "fatal"

\* skip_rows is 1, the first line is a comment of one field, the lines under
\* it have four fields each and one of them is a valid row: an error
C26_Witness ==
    /\ Returned
    /\ opens
    /\ cfg.config.SkipRows = 1
    /\ ~cfg.config.HasHeader
    /\ Len(file) = 3
    /\ file[1] = LineComment
    /\ file[2] = LineA
    /\ Len(file[3]) = Len(file[2])
    /\ err = "cannot read CSV"
    /\ points = <<>>

(***************************************************************************)
(* C27                                                                     *)
(***************************************************************************)
\* the points a and b have the same five fields
SamePoint(a, b) ==
    /\ a.Timestamp = b.Timestamp
    /\ a.Latitude = b.Latitude
    /\ a.Longitude = b.Longitude
    /\ a.Title = b.Title
    /\ a.Description = b.Description

\* every point of q is, field for field, a point of p
NothingInvented(p, q) ==
    \A k \in 1..Len(q) : \E j \in 1..Len(p) : SamePoint(q[k], p[j])

\* C27: every point of the collection SortByTimestamp leaves, and every
\* point of the collection RemoveDuplicates returns, has the five fields of
\* a point of the collection the method was called on; and the call of
\* RemoveDuplicates leaves the collection it was called on as it was, in
\* length, order and contents.
C27_PointsAreNotRewritten ==
    /\ [](Done("SortByTimestamp") =>
            Len(ret.val) = Len(Receiver) /\ NothingInvented(Receiver, ret.val))
    /\ [](Done("RemoveDuplicates") => NothingInvented(Receiver, ret.val))
    /\ [][Calling("RemoveDuplicates") => call'.args[1] = call.args[1]]_vars

\* three points of which the last is the earliest: it is first after the
\* sort, with its title and its place
C27_Witness ==
    /\ Done("SortByTimestamp")
    /\ Len(Receiver) = 3
    /\ Before(Receiver[3].Timestamp, Receiver[1].Timestamp)
    /\ Before(Receiver[3].Timestamp, Receiver[2].Timestamp)
    /\ ret.val # Receiver
    /\ SamePoint(ret.val[1], Receiver[3])

(***************************************************************************)
(* C30                                                                     *)
(***************************************************************************)
\* the header cell is one that the configuration c takes for the field
MatchesField(c, field, cell) ==
    IF ConfiguredName(c, field) # <<>>
    THEN EqualFold(cell, ConfiguredName(c, field))
    ELSE field \in RequiredFields /\ \E a \in Aliases(field) : EqualFold(cell, a)

\* the zero-based position of the rightmost cell of the header taken for the
\* field, -1 when there is none
LastMatch(c, field, header) ==
    LET m == {k \in 1..Len(header) : MatchesField(c, field, header[k])}
    IN  IF m = {} THEN -1 ELSE (CHOOSE k \in m : \A j \in m : j <= k) - 1

LastMatches(c, header) ==
    [timestamp |-> LastMatch(c, "timestamp", header),
     latitude |-> LastMatch(c, "latitude", header),
     longitude |-> LastMatch(c, "longitude", header),
     title |-> LastMatch(c, "title", header),
     description |-> LastMatch(c, "description", header)]

\* C30: in header mode, the index findColumnIndices returns for a field is
\* the position of the rightmost header cell that matches the field, also
\* when several cells match it; and every data row under the header is
\* parsed by parseRecords with those indices: the points are those of the
\* rows that are valid under them, in row order, and the other rows give the
\* warnings.
C30_LastMatchingHeaderCellWins ==
    /\ (/\ Done("findColumnIndices")
        /\ call.args[1].HasHeader
        /\ call.args[2] # <<>>
        /\ ret.val.err = "") =>
         ret.val.indices = LastMatches(call.args[1], call.args[2][1])
    /\ (/\ Done("parseRecords")
        /\ call.args[1].config.HasHeader
        /\ ret.val.err = "") =>
         LET r == call.args[1]
             table == skipRows(r.config, call.args[2])
             res == [k \in 2..Len(table) |->
                       parseRecord(r, table[k], LastMatches(r.config, table[1]))]
             passing == {k \in DOMAIN res : res[k].err = ""}
             q == ret.val.points
             w == ret.val.warnings
         IN  /\ Len(q) = Cardinality(passing)
             /\ \A i \in 1..Len(q) :
                  \E k \in passing :
                    /\ q[i] = res[k].point
                    /\ Cardinality({m \in passing : m < k}) = i - 1
             /\ {w[i].row : i \in 1..Len(w)} = DOMAIN res \ passing

\* the header is time,Timestamp,lat,LAT,lng and no name is configured: the
\* row under it gives a point with the time of its second cell and the
\* latitude of its fourth, and the row after it, whose second cell is no
\* time, gives a warning although its first cell is one
C30_Witness ==
    /\ Done("parseRecords")
    /\ call.args[1].config.HasHeader
    /\ call.args[1].config.SkipRows = 0
    /\ call.args[1].config.TimestampColumn = <<>>
    /\ call.args[2] = <<RowHeaderDoubled, RowDataDoubled, RowDataHalf>>
    /\ ret.val.err = ""
    /\ Len(ret.val.points) = 1
    /\ ret.val.points[1].Latitude = 385000000
    /\ ret.val.points[1].Timestamp =
         parseTimestamp(<<>>, RowDataDoubled[2]).t
    /\ Before(parseTimestamp(<<>>, RowDataDoubled[1]).t,
              ret.val.points[1].Timestamp)
    /\ ret.val.warnings = <<[row |-> 3, reason |-> "invalid timestamp"]>>

====
